---- MODULE Spec2Model ----
(***************************************************************************)
(* STAC item normalization pipeline of commerical-sar-stac                 *)
(* (scripts/main.py, scripts/helpers/processing.py, processing_ard.py,     *)
(* common.py).                                                             *)
(*                                                                         *)
(* Python values are tagged records.  A str is a sequence of one-character  *)
(* strings, a dict is the sequence of its <<key, value>> items in insertion *)
(* order (the keys are strs and distinct), a list is a sequence.            *)
(***************************************************************************)
EXTENDS Integers, Sequences, FiniteSets, TLC

VARIABLES
    key_parts,      \* the parts each key of assets_dict was built from, in order
    assets_dict,    \* normalize_umbra_asset_keys: the argument (ordered dict)
    new_keys,       \* normalize_umbra_asset_keys: new_key of each renamed asset, in order
    normalized,     \* normalize_umbra_asset_keys: the returned dict, NotRun before the call
    links_item,     \* link resolution: the stac_item whose links are resolved
    links_provider, \* link resolution: the provider argument
    links_out,      \* link resolution: properties["links"], NotRun before the call
    providers_to_process,   \* main: the providers, in the order of the command line
    output_format,  \* main: "viz", "ard" or "both"
    responses,      \* what the request of each item URL of each provider does
    tasks,          \* main: the process_provider task of each provider
    main_pc,        \* main: "running", "done" (returned) or "raised"
    called,         \* a helper called on its own: the name of the function
    arguments,      \* a helper called on its own: its arguments, in order
    returned        \* a helper called on its own: what the call gave, NotRun before it

keys_vars == <<key_parts, assets_dict, new_keys, normalized>>

links_vars == <<links_item, links_provider, links_out>>

main_vars == <<providers_to_process, output_format, responses, tasks, main_pc>>

call_vars == <<called, arguments, returned>>

vars == <<keys_vars, links_vars, main_vars, call_vars>>

NotRun == [t |-> "NotRun"]

(***************************************************************************)
(* Python values                                                           *)
(***************************************************************************)
PyNone == [t |-> "None"]
PyStr(s) == [t |-> "str", s |-> s]
PyNum(n) == [t |-> "num", n |-> n]
PyList(l) == [t |-> "list", l |-> l]
PyDict(d) == [t |-> "dict", d |-> d]
PyBool(b) == [t |-> "bool", b |-> b]

PyTuple(l) == [t |-> "tuple", l |-> l]
NpArray(l) == [t |-> "ndarray", l |-> l]
NpNum(n) == [t |-> "npnum", n |-> n]

\* a raised exception, as the result of the call that raised it
Raised(e) == [t |-> "raise", e |-> e]

IsRaise(v) == v.t = "raise"

isinstance_dict(v) == v.t = "dict"
isinstance_list(v) == v.t = "list"
isinstance_str(v) == v.t = "str"

(***************************************************************************)
(* str methods, on sequences of characters                                 *)
(***************************************************************************)
Min(a, b) == IF a <= b THEN a ELSE b

startswith(s, p) == Len(s) >= Len(p) /\ SubSeq(s, 1, Len(p)) = p

endswith(s, p) == Len(s) >= Len(p) /\ SubSeq(s, Len(s) - Len(p) + 1, Len(s)) = p

\* `sub in s`
contains(s, sub) ==
    \E i \in 1..(Len(s) - Len(sub) + 1) : SubSeq(s, i, i + Len(sub) - 1) = sub

\* s.find(sub) + 1: the first position of sub in s, 0 when absent
find(s, sub) ==
    IF contains(s, sub)
    THEN CHOOSE i \in 1..(Len(s) - Len(sub) + 1) :
            /\ SubSeq(s, i, i + Len(sub) - 1) = sub
            /\ \A j \in 1..(i - 1) : SubSeq(s, j, j + Len(sub) - 1) # sub
    ELSE 0

\* s.rfind(c) + 1 for a single character c
rfind(s, c) ==
    IF \E i \in 1..Len(s) : s[i] = c
    THEN CHOOSE i \in 1..Len(s) : s[i] = c /\ \A j \in (i + 1)..Len(s) : s[j] # c
    ELSE 0

\* s.count(c) for a single character c
count(s, c) == Cardinality({i \in 1..Len(s) : s[i] = c})

\* s[i:] with i counted from 1
from(s, i) == SubSeq(s, i, Len(s))

\* s.split(sep, 2)[2], defined when sep occurs at least twice
split_2_third(s, sep) ==
    LET rest1 == from(s, find(s, sep) + Len(sep))
    IN  from(rest1, find(rest1, sep) + Len(sep))

\* s.split(sep)[1], defined when sep occurs in s
split_second(s, sep) ==
    LET rest == from(s, find(s, sep) + Len(sep))
        nxt == find(rest, sep)
    IN  IF nxt = 0 THEN rest ELSE SubSeq(rest, 1, nxt - 1)

\* s.rsplit(".", 1)[0], defined when "." occurs in s
rsplit_dot_first(s) == SubSeq(s, 1, rfind(s, ".") - 1)

RECURSIVE split(_, _)
\* s.split(c) for a single character c
split(s, c) ==
    IF \E i \in 1..Len(s) : s[i] = c
    THEN LET i == find(s, <<c>>)
         IN  <<SubSeq(s, 1, i - 1)>> \o split(from(s, i + 1), c)
    ELSE <<s>>

RECURSIVE join(_, _)
\* sep.join(parts)
join(parts, sep) ==
    IF parts = <<>> THEN <<>>
    ELSE IF Len(parts) = 1 THEN parts[1]
    ELSE parts[1] \o sep \o join(Tail(parts), sep)

UpperChars ==
    <<"A", "B", "C", "D", "E", "F", "G", "H", "I", "J", "K", "L", "M",
      "N", "O", "P", "Q", "R", "S", "T", "U", "V", "W", "X", "Y", "Z">>

LowerChars ==
    <<"a", "b", "c", "d", "e", "f", "g", "h", "i", "j", "k", "l", "m",
      "n", "o", "p", "q", "r", "s", "t", "u", "v", "w", "x", "y", "z">>

lower_char(c) ==
    IF \E i \in 1..Len(UpperChars) : UpperChars[i] = c
    THEN LowerChars[CHOOSE i \in 1..Len(UpperChars) : UpperChars[i] = c]
    ELSE c

\* s.lower()
lower(s) == [i \in 1..Len(s) |-> lower_char(s[i])]

RECURSIVE replace(_, _, _)
\* s.replace(a, b) for a non-empty a
replace(s, a, b) ==
    IF ~contains(s, a) THEN s
    ELSE SubSeq(s, 1, find(s, a) - 1) \o b \o replace(from(s, find(s, a) + Len(a)), a, b)

(***************************************************************************)
(* The str literals of processing.py                                       *)
(***************************************************************************)
S ==
    [ANALYSIS |-> <<"A", "N", "A", "L", "Y", "S", "I", "S">>,
     analysis |-> <<"a", "n", "a", "l", "y", "s", "i", "s">>,
     application_geo_json |-> <<"a", "p", "p", "l", "i", "c", "a", "t", "i", "o", "n", "/",
         "g", "e", "o", "+", "j", "s", "o", "n">>,
     application_json |-> <<"a", "p", "p", "l", "i", "c", "a", "t", "i", "o", "n", "/", "j",
         "s", "o", "n">>,
     archive |-> <<"a", "r", "c", "h", "i", "v", "e">>,
     assets |-> <<"a", "s", "s", "e", "t", "s">>,
     bbox |-> <<"b", "b", "o", "x">>,
     capella |-> <<"c", "a", "p", "e", "l", "l", "a">>,
     collection |-> <<"c", "o", "l", "l", "e", "c", "t", "i", "o", "n">>,
     colon_slash_slash |-> <<":", "/", "/">>,
     colon_space |-> <<":", " ">>,
     comma_space |-> <<",", " ">>,
     coordinates |-> <<"c", "o", "o", "r", "d", "i", "n", "a", "t", "e", "s">>,
     cphd |-> <<"c", "p", "h", "d">>,
     CPHD |-> <<"C", "P", "H", "D">>,
     CSI |-> <<"C", "S", "I">>,
     csi |-> <<"c", "s", "i">>,
     CSI_ |-> <<"C", "S", "I", "_">>,
     csi_ |-> <<"c", "s", "i", "_">>,
     csi_mm |-> <<"c", "s", "i", "_", "m", "m">>,
     datetime |-> <<"d", "a", "t", "e", "t", "i", "m", "e">>,
     dot_cphd |-> <<".", "c", "p", "h", "d">>,
     dot_dot |-> <<".", ".">>,
     dot_dot_slash_catalog_json |-> <<".", ".", "/", "c", "a", "t", "a", "l", "o", "g", ".",
         "j", "s", "o", "n">>,
     dot_json |-> <<".", "j", "s", "o", "n">>,
     dot_nitf |-> <<".", "n", "i", "t", "f">>,
     dot_ntf |-> <<".", "n", "t", "f">>,
     dot_parquet |-> <<".", "p", "a", "r", "q", "u", "e", "t">>,
     dot_tif |-> <<".", "t", "i", "f">>,
     dot_tiff |-> <<".", "t", "i", "f", "f">>,
     dot_xml |-> <<".", "x", "m", "l">>,
     dot_zero |-> <<".", "0">>,
     dot_zip |-> <<".", "z", "i", "p">>,
     end_datetime |-> <<"e", "n", "d", "_", "d", "a", "t", "e", "t", "i", "m", "e">>,
     geometry |-> <<"g", "e", "o", "m", "e", "t", "r", "y">>,
     geometry_geojson |-> <<"g", "e", "o", "m", "e", "t", "r", "y", "_", "g", "e", "o", "j",
         "s", "o", "n">>,
     geotiff |-> <<"g", "e", "o", "t", "i", "f", "f">>,
     href |-> <<"h", "r", "e", "f">>,
     http_ |-> <<"h", "t", "t", "p", ":", "/", "/">>,
     https_ |-> <<"h", "t", "t", "p", "s", ":", "/", "/">>,
     iceye |-> <<"i", "c", "e", "y", "e">>,
     id |-> <<"i", "d">>,
     item |-> <<"i", "t", "e", "m">>,
     item_url |-> <<"h", "t", "t", "p", "s", ":", "/", "/", "u", "/", "t", "/", "i", ".", "s",
         "t", "a", "c", ".", "v", "2", ".", "j", "s", "o", "n">>,
     LineString |-> <<"L", "i", "n", "e", "S", "t", "r", "i", "n", "g">>,
     links |-> <<"l", "i", "n", "k", "s">>,
     metadata |-> <<"m", "e", "t", "a", "d", "a", "t", "a">>,
     metadata_xml |-> <<"m", "e", "t", "a", "d", "a", "t", "a", "_", "x", "m", "l">>,
     MM |-> <<"M", "M">>,
     mm_data |-> <<"m", "m", "_", "d", "a", "t", "a">>,
     NaN |-> <<"N", "a", "N">>,
     nitf |-> <<"n", "i", "t", "f">>,
     null |-> <<"n", "u", "l", "l">>,
     old_self_url |-> <<"s", "3", ":", "/", "/", "p", "/", "i", ".", "j", "s", "o", "n">>,
     other_json |-> <<".", "/", "o", ".", "j", "s", "o", "n">>,
     parent |-> <<"p", "a", "r", "e", "n", "t">>,
     planet |-> <<"p", "l", "a", "n", "e", "t">>,
     Point |-> <<"P", "o", "i", "n", "t">>,
     Polygon |-> <<"P", "o", "l", "y", "g", "o", "n">>,
     properties |-> <<"p", "r", "o", "p", "e", "r", "t", "i", "e", "s">>,
     provider |-> <<"p", "r", "o", "v", "i", "d", "e", "r">>,
     raw_data |-> <<"r", "a", "w", "_", "d", "a", "t", "a">>,
     rel |-> <<"r", "e", "l">>,
     rel_collection_href |-> <<"u", "m", "b", "r", "a", "-", "s", "a", "r">>,
     roles |-> <<"r", "o", "l", "e", "s">>,
     s3_ |-> <<"s", "3", ":", "/", "/">>,
     s3_bucket_x |-> <<"s", "3", ":", "/", "/", "b", "/", "x">>,
     self |-> <<"s", "e", "l", "f">>,
     sfx_CPHD |-> <<"_", "C", "P", "H", "D", ".", "c", "p", "h", "d">>,
     sfx_CSI |-> <<"_", "C", "S", "I", ".", "t", "i", "f">>,
     sfx_CSI_SIDD |-> <<"_", "C", "S", "I", "-", "S", "I", "D", "D", ".", "n", "i", "t", "f">>,
     sfx_GEC |-> <<"_", "G", "E", "C", ".", "t", "i", "f">>,
     sfx_SICD |-> <<"_", "S", "I", "C", "D", ".", "n", "i", "t", "f">>,
     sfx_SIDD |-> <<"_", "S", "I", "D", "D", ".", "n", "i", "t", "f">>,
     SICD |-> <<"S", "I", "C", "D">>,
     sicd |-> <<"s", "i", "c", "d">>,
     SICD_ |-> <<"S", "I", "C", "D", "_">>,
     sicd_ |-> <<"s", "i", "c", "d", "_">>,
     SIDD |-> <<"S", "I", "D", "D">>,
     sidd |-> <<"s", "i", "d", "d">>,
     SIDD_ |-> <<"S", "I", "D", "D", "_">>,
     sidd_ |-> <<"s", "i", "d", "d", "_">>,
     STAC |-> <<"S", "T", "A", "C">>,
     stac_metadata |-> <<"s", "t", "a", "c", "_", "m", "e", "t", "a", "d", "a", "t", "a">>,
     stac_v2_json |-> <<".", "s", "t", "a", "c", ".", "v", "2", ".", "j", "s", "o", "n">>,
     start_datetime |-> <<"s", "t", "a", "r", "t", "_", "d", "a", "t", "e", "t", "i", "m", "e">>,
     t_CSI_hy_SIDD |-> <<"C", "S", "I", "-", "S", "I", "D", "D">>,
     t_CSI_SIDD |-> <<"C", "S", "I", "_", "S", "I", "D", "D">>,
     t_CSI_TIFF |-> <<"C", "S", "I", "_", "T", "I", "F", "F">>,
     t_SICD_XML |-> <<"S", "I", "C", "D", "_", "X", "M", "L">>,
     TIFF |-> <<"T", "I", "F", "F">>,
     title |-> <<"t", "i", "t", "l", "e">>,
     type |-> <<"t", "y", "p", "e">>,
     umbra |-> <<"u", "m", "b", "r", "a">>,
     us_MM |-> <<"_", "M", "M">>,
     utc |-> <<"+", "0", "0", ":", "0", "0">>,
     xmax |-> <<"x", "m", "a", "x">>,
     xmin |-> <<"x", "m", "i", "n">>,
     y19 |-> <<"1", "9">>,
     y20 |-> <<"2", "0">>,
     ymax |-> <<"y", "m", "a", "x">>,
     ymin |-> <<"y", "m", "i", "n">>]

\* the str literals of processing_ard.py
SA ==
    [asset_ |-> <<"a", "s", "s", "e", "t", "_">>,
     assets |-> <<"a", "s", "s", "e", "t", "s">>,
     cols |-> <<"c", "o", "l", "s">>,
     geometry |-> <<"g", "e", "o", "m", "e", "t", "r", "y">>,
     href |-> <<"h", "r", "e", "f">>,
     id |-> <<"i", "d">>,
     nan |-> <<"n", "a", "n">>,
     None |-> <<"N", "o", "n", "e">>,
     processing_software |-> <<"p", "r", "o", "c", "e", "s", "s", "i", "n", "g", ":", "s", "o",
         "f", "t", "w", "a", "r", "e">>,
     processor |-> <<"p", "r", "o", "c", "e", "s", "s", "o", "r">>,
     proj_centroid |-> <<"p", "r", "o", "j", ":", "c", "e", "n", "t", "r", "o", "i", "d">>,
     proj_shape |-> <<"p", "r", "o", "j", ":", "s", "h", "a", "p", "e">>,
     properties |-> <<"p", "r", "o", "p", "e", "r", "t", "i", "e", "s">>,
     raster_bands |-> <<"r", "a", "s", "t", "e", "r", ":", "b", "a", "n", "d", "s">>,
     rows |-> <<"r", "o", "w", "s">>,
     stac_item_url |-> <<"s", "t", "a", "c", "_", "i", "t", "e", "m", "_", "u", "r", "l">>,
     title |-> <<"t", "i", "t", "l", "e">>,
     umbra |-> <<"u", "m", "b", "r", "a">>]

\* the str literals of main.py
SM ==
    [ard |-> <<"a", "r", "d">>,
     bbox |-> <<"b", "b", "o", "x">>,
     both |-> <<"b", "o", "t", "h">>,
     capella |-> <<"c", "a", "p", "e", "l", "l", "a">>,
     capella_ |-> <<"c", "a", "p", "e", "l", "l", "a", "_">>,
     datetime |-> <<"d", "a", "t", "e", "t", "i", "m", "e">>,
     dot_parquet |-> <<".", "p", "a", "r", "q", "u", "e", "t">>,
     end_datetime |-> <<"e", "n", "d", "_", "d", "a", "t", "e", "t", "i", "m", "e">>,
     geometry |-> <<"g", "e", "o", "m", "e", "t", "r", "y">>,
     iceye |-> <<"i", "c", "e", "y", "e">>,
     id |-> <<"i", "d">>,
     properties |-> <<"p", "r", "o", "p", "e", "r", "t", "i", "e", "s">>,
     provider |-> <<"p", "r", "o", "v", "i", "d", "e", "r">>,
     sar_product_type |-> <<"s", "a", "r", ":", "p", "r", "o", "d", "u", "c", "t", "_", "t",
         "y", "p", "e">>,
     start_datetime |-> <<"s", "t", "a", "r", "t", "_", "d", "a", "t", "e", "t", "i", "m", "e">>,
     umbra |-> <<"u", "m", "b", "r", "a">>,
     viz |-> <<"v", "i", "z">>]

(***************************************************************************)
(* Umbra asset key renaming (processing.py)                                *)
(***************************************************************************)
MaxNameLen == 50

\* s.split(sep, 1)[1]
split_1_second(s, sep) == from(s, find(s, sep) + Len(sep))

\* the prefix rule with split("_", 1): only the timestamp is dropped
strip_umbra_prefix_timestamp_only(filename) ==
    IF /\ (startswith(filename, S.y20) \/ startswith(filename, S.y19))
       /\ count(filename, "_") >= 2
    THEN split_1_second(filename, <<"_">>)
    ELSE filename

\* lines 336-340: drop "<timestamp>_<satellite>_" from a key that starts with
\* "20" or "19" and holds at least two underscores
strip_umbra_prefix(filename) ==
    IF /\ (startswith(filename, S.y20) \/ startswith(filename, S.y19))
       /\ count(filename, "_") >= 2
    THEN split_2_third(filename, <<"_">>)
    ELSE filename

\* line 343
name_without_ext_of(filename) ==
    IF contains(filename, <<".">>) THEN rsplit_dot_first(filename) ELSE filename

\* lines 351-352, 354-355, 357-358: f"{low}_{suffix}" if suffix else low
marker_name(name_without_ext, marker_, low) ==
    LET suffix == IF contains(name_without_ext, marker_)
                  THEN lower(split_second(name_without_ext, marker_))
                  ELSE <<>>
    IN  IF suffix # <<>> THEN low \o <<"_">> \o suffix ELSE low

\* line 377
umbra_fallback_name(name_without_ext) ==
    LET cleaned == replace(replace(lower(name_without_ext), <<"-">>, <<"_">>), <<" ">>, <<"_">>)
    IN  SubSeq(cleaned, 1, Min(MaxNameLen, Len(cleaned)))

\* the marker checks without the MM check of lines 359-360
umbra_marker_rules_without_mm(filename, name_without_ext) ==
    IF contains(filename, S.STAC)
    THEN S.stac_metadata
    ELSE IF contains(name_without_ext, S.ANALYSIS)
    THEN S.analysis
    ELSE IF contains(name_without_ext, S.CSI)
    THEN marker_name(name_without_ext, S.CSI_, S.csi)
    ELSE IF contains(name_without_ext, S.SICD)
    THEN marker_name(name_without_ext, S.SICD_, S.sicd)
    ELSE IF contains(name_without_ext, S.SIDD)
    THEN marker_name(name_without_ext, S.SIDD_, S.sidd)
    ELSE <<>>

\* lines 346-360: the marker checks, <<>> when none matches
umbra_marker_rules(filename, name_without_ext) ==
    IF contains(filename, S.STAC)
    THEN S.stac_metadata
    ELSE IF contains(name_without_ext, S.ANALYSIS)
    THEN S.analysis
    ELSE IF contains(name_without_ext, S.CSI)
    THEN marker_name(name_without_ext, S.CSI_, S.csi)
    ELSE IF contains(name_without_ext, S.SICD)
    THEN marker_name(name_without_ext, S.SICD_, S.sicd)
    ELSE IF contains(name_without_ext, S.SIDD)
    THEN marker_name(name_without_ext, S.SIDD_, S.sidd)
    ELSE IF \/ endswith(name_without_ext, S.MM)
            \/ contains(name_without_ext, S.us_MM)
    THEN S.mm_data
    ELSE <<>>

\* the extension checks with ".xml" given the name of ".json"
umbra_extension_rules_xml_as_metadata(filename) ==
    IF endswith(filename, S.dot_json)
    THEN S.metadata
    ELSE IF endswith(filename, S.dot_parquet)
    THEN S.raw_data
    ELSE IF endswith(filename, S.dot_cphd)
    THEN S.cphd
    ELSE IF endswith(filename, S.dot_zip)
    THEN S.archive
    ELSE IF \/ endswith(filename, S.dot_tif)
            \/ endswith(filename, S.dot_tiff)
    THEN S.geotiff
    ELSE IF \/ endswith(filename, S.dot_nitf)
            \/ endswith(filename, S.dot_ntf)
    THEN S.nitf
    ELSE IF endswith(filename, S.dot_xml)
    THEN S.metadata
    ELSE <<>>

\* lines 361-374: the extension checks, <<>> when none matches
umbra_extension_rules(filename) ==
    IF endswith(filename, S.dot_json)
    THEN S.metadata
    ELSE IF endswith(filename, S.dot_parquet)
    THEN S.raw_data
    ELSE IF endswith(filename, S.dot_cphd)
    THEN S.cphd
    ELSE IF endswith(filename, S.dot_zip)
    THEN S.archive
    ELSE IF \/ endswith(filename, S.dot_tif)
            \/ endswith(filename, S.dot_tiff)
    THEN S.geotiff
    ELSE IF \/ endswith(filename, S.dot_nitf)
            \/ endswith(filename, S.dot_ntf)
    THEN S.nitf
    ELSE IF endswith(filename, S.dot_xml)
    THEN S.metadata_xml
    ELSE <<>>

\* the checks with the extension checks moved before the marker checks
umbra_classify_extension_first(filename, name_without_ext) ==
    IF umbra_extension_rules(filename) # <<>>
    THEN umbra_extension_rules(filename)
    ELSE IF umbra_marker_rules(filename, name_without_ext) # <<>>
    THEN umbra_marker_rules(filename, name_without_ext)
    ELSE umbra_fallback_name(name_without_ext)

\* lines 346-377: markers first, extensions second, the cleaned name last
umbra_classify(filename, name_without_ext) ==
    IF umbra_marker_rules(filename, name_without_ext) # <<>>
    THEN umbra_marker_rules(filename, name_without_ext)
    ELSE IF umbra_extension_rules(filename) # <<>>
    THEN umbra_extension_rules(filename)
    ELSE umbra_fallback_name(name_without_ext)

\* _extract_umbra_asset_name for a str key (a JSON object's keys are strs, so
\* the non-str return of lines 330-331 is not taken)
_extract_umbra_asset_name(filename) ==
    LET stripped == strip_umbra_prefix(filename)
    IN  umbra_classify(stripped, name_without_ext_of(stripped))

\* dict assignment d[k] = v on an ordered dict: an existing key keeps its
\* position and takes the new value, a new key is appended
dict_set(d, k, v) ==
    IF \E i \in 1..Len(d) : d[i][1] = k
    THEN [i \in 1..Len(d) |-> IF d[i][1] = k THEN <<k, v>> ELSE d[i]] \o <<>>
    ELSE Append(d, <<k, v>>)

dict_keys(d) == {d[i][1] : i \in 1..Len(d)}

dict_has(d, k) == k \in dict_keys(d)

dict_get(d, k) == d[CHOOSE i \in 1..Len(d) : d[i][1] = k][2]

\* d.get(k, default)
dict_get_default(d, k, default) == IF dict_has(d, k) THEN dict_get(d, k) ELSE default

RECURSIVE normalize_umbra_loop(_, _)
\* lines 308-316: the loop over assets_dict.items(), from the accumulator acc
normalize_umbra_loop(items, acc) ==
    IF items = <<>> THEN acc
    ELSE LET key == Head(items)[1]
             asset_obj == Head(items)[2]
         IN  IF ~isinstance_dict(asset_obj)
             THEN normalize_umbra_loop(Tail(items), acc)
             ELSE normalize_umbra_loop(Tail(items),
                     dict_set(acc, _extract_umbra_asset_name(key), asset_obj))

\* a renaming in which the first asset of a name keeps it
normalize_umbra_asset_keys_first_wins(assets) ==
    IF ~isinstance_dict(assets) THEN <<>>
    ELSE LET loop[k \in 0..Len(assets.d)] ==
                IF k = 0 THEN <<>>
                ELSE IF ~isinstance_dict(assets.d[k][2]) THEN loop[k - 1]
                ELSE IF dict_has(loop[k - 1], _extract_umbra_asset_name(assets.d[k][1]))
                THEN loop[k - 1]
                ELSE Append(loop[k - 1],
                            <<_extract_umbra_asset_name(assets.d[k][1]), assets.d[k][2]>>)
         IN  loop[Len(assets.d)]

\* normalize_umbra_asset_keys; the argument is PyDict(ordered pairs) or another value
normalize_umbra_asset_keys(assets) ==
    IF ~isinstance_dict(assets) THEN <<>>
    ELSE normalize_umbra_loop(assets.d, <<>>)

\* line 315, for every item of the loop: the new key of a renamed asset, None for
\* a skipped one
umbra_new_keys(assets) ==
    IF ~isinstance_dict(assets) THEN <<>>
    ELSE [i \in 1..Len(assets.d) |->
            IF isinstance_dict(assets.d[i][2])
            THEN PyStr(_extract_umbra_asset_name(assets.d[i][1]))
            ELSE PyNone]

(***************************************************************************)
(* Value normalizer (processing.py)                                        *)
(***************************************************************************)
RECURSIVE tolist(_)
\* ndarray.tolist(): nested lists of native numbers
tolist(v) ==
    IF v.t = "ndarray" THEN PyList([i \in 1..Len(v.l) |-> tolist(v.l[i])])
    ELSE IF v.t = "npnum" THEN PyNum(v.n)
    ELSE v

RECURSIVE normalize_value_for_parquet(_)
\* the normalizer that gives a tuple for a list and a list for a tuple
normalize_value_for_parquet_swaps_sequences(value) ==
    IF value.t = "None" THEN PyNone
    ELSE IF value.t = "ndarray" THEN tolist(value)
    ELSE IF value.t = "npnum" THEN PyNum(value.n)
    ELSE IF value.t = "dict"
    THEN PyDict([i \in 1..Len(value.d) |->
                   <<value.d[i][1], normalize_value_for_parquet(value.d[i][2])>>] \o <<>>)
    ELSE IF value.t = "list"
    THEN PyTuple([i \in 1..Len(value.l) |-> normalize_value_for_parquet(value.l[i])] \o <<>>)
    ELSE IF value.t = "tuple"
    THEN PyList([i \in 1..Len(value.l) |-> normalize_value_for_parquet(value.l[i])] \o <<>>)
    ELSE value

\* normalize_value_for_parquet(value)
normalize_value_for_parquet(value) ==
    IF value.t = "None" THEN PyNone
    ELSE IF value.t = "ndarray" THEN tolist(value)
    ELSE IF value.t = "npnum" THEN PyNum(value.n)
    ELSE IF value.t = "dict"
    THEN PyDict([i \in 1..Len(value.d) |->
                   <<value.d[i][1], normalize_value_for_parquet(value.d[i][2])>>] \o <<>>)
    ELSE IF value.t \in {"list", "tuple"}
    THEN PyList([i \in 1..Len(value.l) |-> normalize_value_for_parquet(value.l[i])] \o <<>>)
    ELSE value

(***************************************************************************)
(* Link resolution (processing.py)                                         *)
(***************************************************************************)
\* the scheme of an absolute URL "scheme://netloc/path", <<>> when the text has none
url_scheme(url) ==
    IF contains(url, <<":">>) /\ ~contains(SubSeq(url, 1, find(url, <<":">>) - 1), <<"/">>)
       /\ find(url, <<":">>) > 1
    THEN SubSeq(url, 1, find(url, <<":">>) - 1)
    ELSE <<>>

\* "scheme://netloc" of an absolute URL
url_origin(url) ==
    LET rest == from(url, find(url, S.colon_slash_slash) + 3)
        slash == find(rest, <<"/">>)
    IN  SubSeq(url, 1, find(url, S.colon_slash_slash) + 2)
            \o (IF slash = 0 THEN rest ELSE SubSeq(rest, 1, slash - 1))

\* the path of an absolute URL
url_path(url) ==
    LET rest == from(url, find(url, S.colon_slash_slash) + 3)
        slash == find(rest, <<"/">>)
    IN  IF slash = 0 THEN <<>> ELSE from(rest, slash)

RECURSIVE resolve_segments(_, _)
\* urljoin: the loop over the segments that drops "." and pops on ".."
resolve_segments(segments, resolved_path) ==
    IF segments = <<>> THEN resolved_path
    ELSE IF Head(segments) = S.dot_dot
    THEN resolve_segments(Tail(segments),
            IF resolved_path = <<>> THEN <<>>
            ELSE SubSeq(resolved_path, 1, Len(resolved_path) - 1))
    ELSE IF Head(segments) = <<".">>
    THEN resolve_segments(Tail(segments), resolved_path)
    ELSE resolve_segments(Tail(segments), Append(resolved_path, Head(segments)))

\* segments[1:-1] = filter(None, segments[1:-1])
filter_inner(segments) ==
    IF Len(segments) <= 2 THEN segments
    ELSE <<segments[1]>>
            \o SelectSeq(SubSeq(segments, 2, Len(segments) - 1), LAMBDA g : g # <<>>)
            \o <<segments[Len(segments)]>>

\* urllib.parse.urljoin(base, url) for an absolute base without query and a url
\* without query, fragment and parameters
urljoin(base, url) ==
    IF url = <<>> THEN base
    ELSE IF url_scheme(url) # <<>> /\ url_scheme(url) # url_scheme(base) THEN url
    ELSE IF startswith(url, <<"/", "/">>) THEN url_scheme(base) \o <<":">> \o url
    ELSE LET base_parts(bparts) == IF bparts[Len(bparts)] # <<>>
                                   THEN SubSeq(bparts, 1, Len(bparts) - 1) ELSE bparts
             resolved_path(segments, resolved) ==
                 IF segments[Len(segments)] \in {<<".">>, S.dot_dot}
                 THEN Append(resolved, <<>>) ELSE resolved
             resolve(segments) == resolved_path(segments, resolve_segments(segments, <<>>))
             path(joined) == IF joined = <<>> THEN <<"/">> ELSE joined
             rooted(joined) == IF startswith(joined, <<"/">>) THEN joined ELSE <<"/">> \o joined
         IN  url_origin(base) \o rooted(path(join(resolve(
                 IF startswith(url, <<"/">>) THEN split(url, "/")
                 ELSE filter_inner(base_parts(split(url_path(base), "/")) \o split(url, "/"))),
                 <<"/">>)))

\* resolve_link_href; href.startswith raises AttributeError on a value that is no str
resolve_link_href(href, base_url) ==
    IF ~isinstance_str(href) THEN Raised("AttributeError")
    ELSE IF startswith(href.s, S.http_) \/ startswith(href.s, S.https_) THEN href
    ELSE IF startswith(href.s, S.s3_) THEN href
    ELSE PyStr(urljoin(base_url, href.s))

\* lines 228-234 and 244-250: the self link that fix_umbra_links writes
umbra_self_link(item_url, type) ==
    PyDict(<<<<S.rel, PyStr(S.self)>>, <<S.href, PyStr(item_url)>>, <<S.type, type>>>>)

RECURSIVE fix_umbra_links_loop(_, _, _)
\* lines 216-239: the loop over links_list, from the accumulator fixed_links
fix_umbra_links_loop(links, item_url, fixed_links) ==
    IF links = <<>> THEN fixed_links
    ELSE LET link == Head(links)
             rel == dict_get_default(link.d, S.rel, PyNone)
         IN  IF ~isinstance_dict(link)
             THEN fix_umbra_links_loop(Tail(links), item_url, fixed_links)
             ELSE IF rel \in {PyStr(S.collection), PyStr(S.parent)}
             THEN fix_umbra_links_loop(Tail(links), item_url, fixed_links)
             ELSE IF rel = PyStr(S.self)
             THEN fix_umbra_links_loop(Tail(links), item_url,
                     Append(fixed_links,
                         umbra_self_link(item_url,
                             dict_get_default(link.d, S.type, PyStr(S.application_geo_json)))))
             ELSE fix_umbra_links_loop(Tail(links), item_url,
                     Append(fixed_links, normalize_value_for_parquet(link)))

\* lines 242-250: whether a self link has to be appended
has_self(fixed_links) ==
    \E i \in 1..Len(fixed_links) :
        dict_get_default(fixed_links[i].d, S.rel, PyNone) = PyStr(S.self)

fix_umbra_links(links_list, item_url) ==
    LET fixed_links ==
            fix_umbra_links_loop(IF isinstance_list(links_list) THEN links_list.l ELSE <<>>,
                                 item_url, <<>>)
    IN  IF ~has_self(fixed_links)
        THEN PyList(Append(fixed_links, umbra_self_link(item_url, PyStr(S.application_geo_json))))
        ELSE PyList(fixed_links)

RECURSIVE resolve_links_loop(_, _, _)
\* lines 277-288: the default loop; a raise of resolve_link_href leaves the loop
resolve_links_loop(links, item_url, resolved_links) ==
    IF links = <<>> THEN PyList(resolved_links)
    ELSE LET with_href(resolved_link, href) ==
                 IF IsRaise(href) THEN href
                 ELSE resolve_links_loop(Tail(links), item_url,
                         Append(resolved_links, PyDict(dict_set(resolved_link.d, S.href, href))))
             with_link(link, resolved_link) ==
                 IF ~isinstance_dict(link)
                 THEN resolve_links_loop(Tail(links), item_url, resolved_links)
                 ELSE IF ~dict_has(resolved_link.d, S.href)
                 THEN resolve_links_loop(Tail(links), item_url,
                         Append(resolved_links, resolved_link))
                 ELSE with_href(resolved_link,
                         resolve_link_href(dict_get(resolved_link.d, S.href), item_url))
         IN  with_link(Head(links), normalize_value_for_parquet(Head(links)))

\* resolve_links(links_list, item_url, provider)
resolve_links(links_list, item_url, provider) ==
    IF ~isinstance_list(links_list) THEN PyList(<<>>)
    ELSE IF provider = PyStr(S.umbra) THEN fix_umbra_links(links_list, item_url)
    ELSE resolve_links_loop(links_list.l, item_url, <<>>)


(***************************************************************************)
(* Asset keys given to the renaming: "<timestamp>_<satellite>_<descriptor> *)
(* <ext>" as in the Umbra catalog, and bare "<descriptor><ext>" keys.      *)
(***************************************************************************)
\* timestamps and satellite identifiers of Umbra keys
U ==
    [ts2025 |-> <<"2", "0", "2", "5", "-", "0", "6", "-", "2", "2", "-", "2", "3", "-", "5",
         "7", "-", "5", "2">>,
     ts1999 |-> <<"1", "9", "9", "9", "-", "1", "2", "-", "3", "1", "-", "2", "3", "-", "5",
         "9", "-", "5", "9">>,
     sat10 |-> <<"U", "M", "B", "R", "A", "-", "1", "0">>,
     sat04 |-> <<"U", "M", "B", "R", "A", "-", "0", "4">>]

\* descriptors
D ==
    [STAC |-> <<"S", "T", "A", "C">>,
     ANALYSIS |-> <<"A", "N", "A", "L", "Y", "S", "I", "S">>,
     CSI |-> <<"C", "S", "I">>,
     CSI_MM |-> <<"C", "S", "I", "_", "M", "M">>,
     CSI_hy_SIDD |-> <<"C", "S", "I", "-", "S", "I", "D", "D">>,
     CSI_STAC |-> <<"C", "S", "I", "_", "S", "T", "A", "C">>,
     CSI_A_CSI_B |-> <<"C", "S", "I", "_", "A", "_", "C", "S", "I", "_", "B">>,
     SICD |-> <<"S", "I", "C", "D">>,
     SICD_MM |-> <<"S", "I", "C", "D", "_", "M", "M">>,
     SIDD |-> <<"S", "I", "D", "D">>,
     SIDD_X |-> <<"S", "I", "D", "D", "_", "X">>,
     MM |-> <<"M", "M">>,
     GEC_MM |-> <<"G", "E", "C", "_", "M", "M">>,
     X_MMY |-> <<"X", "_", "M", "M", "Y">>,
     GEC |-> <<"G", "E", "C">>,
     README |-> <<"R", "E", "A", "D", "M", "E">>,
     My_File |-> <<"M", "y", " ", "F", "i", "l", "e", "-", "1">>,
     UMBRA_10 |-> <<"U", "M", "B", "R", "A", "-", "1", "0">>,
     uuid |-> <<"2", "0", "2", "5", "-", "0", "6", "-", "2", "2", "-", "2", "3", "-", "5",
         "7", "-", "5", "2", "_", "9", "9", "e", "7", "5", "7", "2", "2", "-", "4", "3",
         "3", "8", "-", "4", "8", "4", "c", "-", "a", "2", "4", "5", "-", "1", "4", "0",
         "9", "b", "6", "b", "1", "b", "7", "d", "1">>,
     long |-> <<"A", "B", "C", "D", "E", "F", "G", "H", "I", "J", "-", "K", "L", "M", "N", "O",
         "P", "Q", "R", "S", "T", " ", "U", "V", "W", "X", "Y", "Z", "a", "b", "c", "d", "-",
         "e", "f", "g", "h", "i", "j", "k", "l", "m", "n", " ", "o", "p", "q", "r", "s", "t",
         "u", "v", "w", "x", "_", "0", "1", "2", "3">>,
     metadata |-> <<"m", "e", "t", "a", "d", "a", "t", "a">>,
     csi_mm |-> <<"c", "s", "i", "_", "m", "m">>,
     nitf |-> <<"n", "i", "t", "f">>]

\* extensions
E ==
    [json |-> <<".", "j", "s", "o", "n">>,
     parquet |-> <<".", "p", "a", "r", "q", "u", "e", "t">>,
     cphd |-> <<".", "c", "p", "h", "d">>,
     zip |-> <<".", "z", "i", "p">>,
     tif |-> <<".", "t", "i", "f">>,
     tiff |-> <<".", "t", "i", "f", "f">>,
     nitf |-> <<".", "n", "i", "t", "f">>,
     ntf |-> <<".", "n", "t", "f">>,
     xml |-> <<".", "x", "m", "l">>,
     txt |-> <<".", "t", "x", "t">>]

Descriptors ==
    {D.STAC, D.ANALYSIS, D.CSI, D.CSI_MM, D.CSI_hy_SIDD, D.CSI_STAC, D.CSI_A_CSI_B,
     D.SICD, D.SICD_MM, D.SIDD, D.SIDD_X, D.MM, D.GEC_MM, D.X_MMY, D.GEC, D.README,
     D.My_File, D.UMBRA_10, D.uuid, D.long, D.metadata, D.csi_mm, D.nitf}

Extensions ==
    {<<>>, E.json, E.parquet, E.cphd, E.zip, E.tif, E.tiff, E.nitf, E.ntf, E.xml, E.txt}

Prefixes ==
    {[ts |-> <<>>, sat |-> <<>>],
     [ts |-> U.ts2025, sat |-> U.sat10],
     [ts |-> U.ts1999, sat |-> U.sat04]}

Parts(pre, d, e) == [ts |-> pre.ts, sat |-> pre.sat, desc |-> d, ext |-> e]

AllParts == {Parts(pre, d, e) : pre \in Prefixes, d \in Descriptors, e \in Extensions}

Bare == [ts |-> <<>>, sat |-> <<>>]

Umbra10 == [ts |-> U.ts2025, sat |-> U.sat10]

\* the keys that share one assets dict
PairParts ==
    {Parts(Bare, D.metadata, <<>>), Parts(Bare, D.GEC, E.json), Parts(Bare, D.GEC, E.xml),
     Parts(Bare, D.CSI_MM, E.tif), Parts(Umbra10, D.CSI_MM, E.tif),
     Parts(Bare, D.csi_mm, <<>>), Parts(Bare, D.SICD, E.nitf),
     Parts(Umbra10, D.STAC, E.json), Parts(Bare, D.README, E.txt)}

KeyOf(p) ==
    IF p.ts = <<>> THEN p.desc \o p.ext
    ELSE p.ts \o <<"_">> \o p.sat \o <<"_">> \o p.desc \o p.ext

\* asset objects: the mapping given at position i of an assets dict, and a null entry
Digits == <<"1", "2", "3", "4", "5", "6", "7", "8", "9">>

AssetObjAt(i) ==
    PyDict(<<<<S.href, PyStr(<<"s", "3", ":", "/", "/", "a", Digits[i]>>)>>,
             <<S.type, PyStr(<<"t">>)>>>>)

MaxAssets == 3

DistinctSeqs(Dom, n) == {q \in [1..n -> Dom] : \A i, j \in 1..n : i # j => q[i] # q[j]}

KeyInputs ==
    {<<p>> : p \in AllParts} \cup UNION {DistinctSeqs(PairParts, n) : n \in 2..MaxAssets}

\* the assets dict with the keys of ps; wellformed[i] tells whether entry i is a mapping
BuildAssets(ps, wellformed) ==
    PyDict([i \in 1..Len(ps) |->
              <<KeyOf(ps[i]), IF wellformed[i] THEN AssetObjAt(i) ELSE PyNone>>])

LinksIdle == links_item = PyNone /\ links_provider = PyNone /\ links_out = NotRun

\* no helper is called on its own
CallsIdle == called = "" /\ arguments = <<>> /\ returned = NotRun

\* no run of main
MainIdle ==
    /\ providers_to_process = <<>> /\ output_format = <<>> /\ responses = <<>>
    /\ tasks = <<>> /\ main_pc = "idle"

\* no call of normalize_umbra_asset_keys under observation
KeysIdle ==
    key_parts = <<>> /\ assets_dict = PyNone /\ new_keys = <<>> /\ normalized = NotRun

InitKeys ==
    /\ LinksIdle
    /\ CallsIdle
    /\ MainIdle
    /\ new_keys = <<>>
    /\ normalized = NotRun
    /\ \/ /\ key_parts = <<>>
          /\ assets_dict \in {PyNone, PyDict(<<>>)}
       \/ \E ps \in KeyInputs :
            /\ key_parts = ps
            /\ \E objs \in [1..Len(ps) -> {TRUE, FALSE}] :
                  /\ Len(ps) = 1 => objs[1]
                  /\ assets_dict = BuildAssets(ps, objs)

\* one call of normalize_umbra_asset_keys(assets_dict)
NormalizeKeys ==
    /\ normalized = NotRun
    /\ normalized' = PyDict(normalize_umbra_asset_keys(assets_dict))
    /\ new_keys' = umbra_new_keys(assets_dict)
    /\ UNCHANGED <<key_parts, assets_dict, links_vars, main_vars, call_vars>>

NextKeys == NormalizeKeys

SpecKeys == InitKeys /\ [][NextKeys]_vars

(***************************************************************************)
(* Claims on the asset key renaming, checked under SpecKeys                *)
(***************************************************************************)
\* The priority order of the renaming rules as the specification lists it
RuleOrder ==
    <<"STAC", "ANALYSIS", "CSI", "SICD", "SIDD", "MM", ".json", ".parquet", ".cphd",
      ".zip", ".tif", ".nitf", ".xml">>

\* Whether rule r matches the key that is left once the prefix is dropped
RuleMatches(r, rest) ==
    LET nwe == name_without_ext_of(rest)
    IN  CASE r = "STAC" -> contains(rest, D.STAC)
          [] r = "ANALYSIS" -> contains(nwe, D.ANALYSIS)
          [] r = "CSI" -> contains(nwe, D.CSI)
          [] r = "SICD" -> contains(nwe, D.SICD)
          [] r = "SIDD" -> contains(nwe, D.SIDD)
          [] r = "MM" -> endswith(nwe, D.MM) \/ contains(nwe, <<"_">> \o D.MM)
          [] r = ".json" -> endswith(rest, E.json)
          [] r = ".parquet" -> endswith(rest, E.parquet)
          [] r = ".cphd" -> endswith(rest, E.cphd)
          [] r = ".zip" -> endswith(rest, E.zip)
          [] r = ".tif" -> endswith(rest, E.tif) \/ endswith(rest, E.tiff)
          [] r = ".nitf" -> endswith(rest, E.nitf) \/ endswith(rest, E.ntf)
          [] r = ".xml" -> endswith(rest, E.xml)

\* The first rule of RuleOrder that matches, "fallback" when none does
RuleOf(rest) ==
    IF \E i \in 1..Len(RuleOrder) : RuleMatches(RuleOrder[i], rest)
    THEN RuleOrder[CHOOSE i \in 1..Len(RuleOrder) :
            /\ RuleMatches(RuleOrder[i], rest)
            /\ \A j \in 1..(i - 1) : ~RuleMatches(RuleOrder[j], rest)]
    ELSE "fallback"

\* Whether out is a name rule r gives
NameOfRule(r, out) ==
    CASE r = "STAC" -> out = S.stac_metadata
      [] r = "ANALYSIS" -> out = S.analysis
      [] r = "CSI" -> out = S.csi \/ (startswith(out, S.csi_) /\ Len(out) > 4)
      [] r = "SICD" -> out = S.sicd \/ (startswith(out, S.sicd_) /\ Len(out) > 5)
      [] r = "SIDD" -> out = S.sidd \/ (startswith(out, S.sidd_) /\ Len(out) > 5)
      [] r = "MM" -> out = S.mm_data
      [] r = ".json" -> out = S.metadata
      [] r = ".parquet" -> out = S.raw_data
      [] r = ".cphd" -> out = S.cphd
      [] r = ".zip" -> out = S.archive
      [] r = ".tif" -> out = S.geotiff
      [] r = ".nitf" -> out = S.nitf
      [] r = ".xml" -> out = S.metadata_xml

\* Whether out is the descriptor nwe in lower case with "-" and " " turned into
\* "_", cut to at most 50 characters
IsSanitized(out, nwe) ==
    /\ Len(out) = Min(50, Len(nwe))
    /\ \A i \in 1..Len(out) :
          out[i] = (IF nwe[i] \in {"-", " "} THEN "_" ELSE lower_char(nwe[i]))

\* The key without its "<timestamp>_<satellite>_" prefix, from the parts it was built of
RestOf(p) == p.desc \o p.ext

Renamed == {i \in 1..Len(new_keys) : new_keys[i] # PyNone}

NormalizeDone == normalized # NotRun

\* C8 as stated: two keys of one assets dict that are classified by different
\* rules, the cleaned-name fallback included, get different new keys and are both
\* in the result
C8_DifferentRulesNeverCollide ==
    NormalizeDone =>
        \A i, j \in Renamed :
            RuleOf(RestOf(key_parts[i])) # RuleOf(RestOf(key_parts[j])) =>
                /\ new_keys[i] # new_keys[j]
                /\ dict_has(normalized.d, new_keys[i].s)
                /\ dict_get(normalized.d, new_keys[i].s) = assets_dict.d[i][2]

\* C8 amended: two keys of one assets dict that are classified by different rules
\* other than the cleaned-name fallback get different new keys, both new keys are
\* in the result, and each holds its asset unless a later key of the dict is
\* renamed to the same name
C8_DifferentNamedRulesNeverCollide ==
    NormalizeDone =>
        \A i, j \in Renamed :
            /\ RuleOf(RestOf(key_parts[i])) # RuleOf(RestOf(key_parts[j]))
            /\ RuleOf(RestOf(key_parts[i])) # "fallback"
            /\ RuleOf(RestOf(key_parts[j])) # "fallback"
            => /\ new_keys[i] # new_keys[j]
               /\ dict_has(normalized.d, new_keys[i].s)
               /\ (\A k \in Renamed : new_keys[k] = new_keys[i] => k <= i)
                     => dict_get(normalized.d, new_keys[i].s) = assets_dict.d[i][2]

\* C8 witness: a ".xml" key and a ".json" key were renamed in one dict and both
\* assets are in the result under different keys
C8_Witness ==
    /\ NormalizeDone
    /\ \E i, j \in Renamed :
          /\ RuleOf(RestOf(key_parts[i])) = ".xml"
          /\ RuleOf(RestOf(key_parts[j])) = ".json"
          /\ dict_get(normalized.d, new_keys[i].s) = assets_dict.d[i][2]
          /\ dict_get(normalized.d, new_keys[j].s) = assets_dict.d[j][2]

\* the entries of the result under the new key of input key i
EntriesUnder(i) == {e \in 1..Len(normalized.d) : normalized.d[e][1] = new_keys[i].s}

\* the last input key that is renamed to the new key of input key i
LastRenamedAs(i) ==
    CHOOSE k \in Renamed :
        /\ new_keys[k] = new_keys[i]
        /\ \A m \in Renamed : new_keys[m] = new_keys[i] => m <= k

\* C28: the result has no more entries than the dict has assets that are
\* mappings, every new key has exactly one entry, and the entry holds the asset
\* of the last input key that is renamed to it
C28_LastAssetOfANameSurvives ==
    NormalizeDone =>
        /\ normalized.t = "dict"
        /\ Len(normalized.d) <= Cardinality(Renamed)
        /\ \A i \in Renamed :
                /\ Cardinality(EntriesUnder(i)) = 1
                /\ dict_get(normalized.d, new_keys[i].s) = assets_dict.d[LastRenamedAs(i)][2]

\* C28 witness: two keys of one dict were renamed to the same name and the result
\* holds the asset of the second, which is not that of the first, and fewer
\* entries than the dict has assets
C28_Witness ==
    /\ NormalizeDone
    /\ \E i, j \in Renamed :
          /\ i < j
          /\ new_keys[i] = new_keys[j]
          /\ LastRenamedAs(i) = j
          /\ dict_get(normalized.d, new_keys[i].s) = assets_dict.d[j][2]
          /\ assets_dict.d[j][2] # assets_dict.d[i][2]
          /\ Len(normalized.d) < Cardinality(Renamed)

Prefixed == {i \in Renamed : key_parts[i].ts # <<>> /\ key_parts[i].ext # <<>>}

\* Whether the descriptor d is CSI_<X> with a non-empty X
IsCsiX(d) == startswith(d, S.CSI_) /\ Len(d) > 4

\* What the renaming gives for a key with a prefix when only the descriptor and
\* the extension are classified
PrefixDropped(i) ==
    LET rest == RestOf(key_parts[i])
        r == RuleOf(rest)
        out == new_keys[i].s
    IN  /\ IF r = "fallback" THEN IsSanitized(out, key_parts[i].desc) ELSE NameOfRule(r, out)
        /\ ~startswith(out, key_parts[i].ts)
        /\ ~contains(out, key_parts[i].sat)

MmJsonKey == U.ts2025 \o <<"_">> \o U.sat10 \o <<"_">> \o D.MM \o E.json

UuidParquetKey == D.uuid \o E.parquet

Link(rel, href) == PyDict(<<<<S.rel, PyStr(rel)>>, <<S.href, PyStr(href)>>>>)

LinkTyped(rel, href, type) ==
    PyDict(<<<<S.rel, PyStr(rel)>>, <<S.href, PyStr(href)>>, <<S.type, type>>>>)

\* link entries of a raw item: well-formed links of every rel, a self link with a
\* media type, with a null one and with none, a link without rel, a link whose
\* href is null, and an entry that is no mapping
LinkEntries ==
    {Link(S.self, S.old_self_url),
     LinkTyped(S.self, S.old_self_url, PyStr(S.application_json)),
     LinkTyped(S.self, S.item_url, PyNone),
     Link(S.collection, S.rel_collection_href),
     Link(S.parent, S.dot_dot_slash_catalog_json),
     LinkTyped(S.item, S.other_json, PyList(<<PyNum(1)>>)),
     PyDict(<<<<S.href, PyStr(S.s3_bucket_x)>>>>),
     PyDict(<<<<S.rel, PyStr(S.item)>>, <<S.href, PyNone>>>>),
     PyStr(S.self)}

MaxLinks == 3

LinkLists == UNION {[1..n -> LinkEntries] : n \in 0..MaxLinks}

\* the value of the item's "links" key
LinksValues ==
    {PyList(l) : l \in LinkLists} \cup {PyNone, PyDict(<<>>), Link(S.self, S.item_url)}

Providers == {PyStr(S.capella), PyStr(S.iceye), PyStr(S.umbra), PyStr(S.planet), PyNone}

InitLinks ==
    /\ KeysIdle
    /\ CallsIdle
    /\ MainIdle
    /\ links_out = NotRun
    /\ links_provider \in Providers
    /\ \/ links_item = PyDict(<<>>)
       \/ \E v \in LinksValues : links_item = PyDict(<<<<S.links, v>>>>)

\* line 447: resolve_links(stac_item.get("links", []), item_url, provider=provider)
ResolveLinks ==
    /\ links_out = NotRun
    /\ links_out' = resolve_links(dict_get_default(links_item.d, S.links, PyList(<<>>)),
                                  S.item_url, links_provider)
    /\ UNCHANGED <<links_item, links_provider, keys_vars, main_vars, call_vars>>

NextLinks == ResolveLinks

SpecLinks == InitLinks /\ [][NextLinks]_vars

\* the number of links of a resolved list whose rel is one of rels
CountRel(links, rels) ==
    Cardinality({i \in 1..Len(links) :
        dict_get_default(links[i].d, S.rel, PyNone) \in {PyStr(r) : r \in rels}})

\* C2: for provider umbra and every links value of the item (any number of self,
\* collection, parent and other links, none at all, an absent key, a value that is
\* no list) the resolved links hold exactly one self link and no collection or
\* parent link
C2_UmbraExactlyOneSelf ==
    (links_out # NotRun /\ links_provider = PyStr(S.umbra)) =>
        /\ links_out.t = "list"
        /\ CountRel(links_out.l, {S.self}) = 1
        /\ CountRel(links_out.l, {S.collection, S.parent}) = 0

(***************************************************************************)
(* Python and library values of the item pipeline                          *)
(***************************************************************************)
\* a float, as shapely gives for every coordinate
PyFloat(n) == [t |-> "float", n |-> n]

\* the missing cell of a DataFrame
NaN == [t |-> "nan"]

\* bool(v)
truthy(v) ==
    CASE v.t \in {"None", "nan"} -> v.t = "nan"
      [] v.t = "str" -> v.s # <<>>
      [] v.t \in {"num", "npnum", "float"} -> v.n # 0
      [] v.t \in {"list", "tuple", "ndarray"} -> v.l # <<>>
      [] v.t = "dict" -> v.d # <<>>
      [] OTHER -> TRUE

\* v.get(key, default): AttributeError when v has no get
get(v, key, default) ==
    IF v.t = "dict" THEN dict_get_default(v.d, key, default) ELSE Raised("AttributeError")

RECURSIVE dict_update(_, _)
\* {**d, **e}: the items of e assigned over d, in order
dict_update(d, e) ==
    IF e = <<>> THEN d ELSE dict_update(dict_set(d, Head(e)[1], Head(e)[2]), Tail(e))

\* shapely.geometry.shape(context) for a GeoJSON value whose coordinates, when
\* the type is known, are well formed: a Point, a LineString, or a Polygon of
\* one ring.  The geometry is its type and its sequence of coordinate tuples.
shape(context) ==
    LET type == dict_get_default(context.d, S.type, PyNone)
        coordinates == dict_get(context.d, S.coordinates)
        xy(p) == [k \in 1..Len(p.l) |-> p.l[k].n]
        pts(l) == [k \in 1..Len(l) |-> xy(l[k])]
    IN  IF context.t # "dict" THEN Raised("AttributeError")
        ELSE IF type.t # "str" THEN Raised("AttributeError")
        ELSE IF lower(type.s) \notin {lower(S.Point), lower(S.LineString), lower(S.Polygon)}
        THEN Raised("GeometryTypeError")
        ELSE IF ~dict_has(context.d, S.coordinates) THEN Raised("KeyError")
        ELSE IF lower(type.s) = lower(S.Point)
        THEN [t |-> "geom", type |-> S.Point, coords |-> <<xy(coordinates)>>]
        ELSE IF lower(type.s) = lower(S.LineString)
        THEN [t |-> "geom", type |-> S.LineString, coords |-> pts(coordinates.l)]
        ELSE [t |-> "geom", type |-> S.Polygon, coords |-> pts(coordinates.l[1].l)]

\* geometry.bounds: (minx, miny, maxx, maxy) of a non-empty geometry
bounds(geometry) ==
    LET xs == {geometry.coords[k][1] : k \in 1..Len(geometry.coords)}
        ys == {geometry.coords[k][2] : k \in 1..Len(geometry.coords)}
        min(Q) == CHOOSE a \in Q : \A b \in Q : a <= b
        max(Q) == CHOOSE a \in Q : \A b \in Q : a >= b
    IN  <<PyFloat(min(xs)), PyFloat(min(ys)), PyFloat(max(xs)), PyFloat(max(ys))>>

\* pd.to_datetime(arg, utc=True, format="mixed") for a str: the instant as ISO
\* text in UTC, for a date and time of day given without offset, with Z or
\* with +00:00; ValueError for a text that is no date
to_datetime(arg) ==
    LET s == arg.s
        digits == {"0", "1", "2", "3", "4", "5", "6", "7", "8", "9"}
        is_date == /\ Len(s) >= 10
                   /\ \A k \in {1, 2, 3, 4, 6, 7, 9, 10} : s[k] \in digits
                   /\ s[5] = "-" /\ s[8] = "-"
    IN  IF ~is_date THEN Raised("ValueError")
        ELSE IF endswith(s, <<"Z">>)
        THEN [t |-> "Timestamp", iso |-> SubSeq(s, 1, Len(s) - 1) \o S.utc]
        ELSE IF endswith(s, S.utc) THEN [t |-> "Timestamp", iso |-> s]
        ELSE [t |-> "Timestamp", iso |-> s \o S.utc]

\* extract_datetime_fields whose end falls back to "datetime" and not to the start
extract_datetime_fields_end_from_datetime(properties) ==
    LET or(a, b) == IF truthy(a) THEN a ELSE b
        start_dt == or(get(properties, S.start_datetime, PyNone),
                       get(properties, S.datetime, PyNone))
        end_dt == or(get(properties, S.end_datetime, PyNone),
                     get(properties, S.datetime, PyNone))
        parsed(v) == IF truthy(v) THEN to_datetime(v) ELSE v
    IN  IF properties.t # "dict" THEN Raised("AttributeError")
        ELSE IF IsRaise(parsed(start_dt)) THEN parsed(start_dt)
        ELSE IF IsRaise(parsed(end_dt)) THEN parsed(end_dt)
        ELSE PyTuple(<<parsed(start_dt), parsed(end_dt)>>)

\* extract_datetime_fields(properties): the tuple (start_dt, end_dt)
extract_datetime_fields(properties) ==
    LET or(a, b) == IF truthy(a) THEN a ELSE b
        start_dt == or(get(properties, S.start_datetime, PyNone),
                       get(properties, S.datetime, PyNone))
        end_dt == or(get(properties, S.end_datetime, PyNone), start_dt)
        parsed(v) == IF truthy(v) THEN to_datetime(v) ELSE v
    IN  IF properties.t # "dict" THEN Raised("AttributeError")
        ELSE IF IsRaise(parsed(start_dt)) THEN parsed(start_dt)
        ELSE IF IsRaise(parsed(end_dt)) THEN parsed(end_dt)
        ELSE PyTuple(<<parsed(start_dt), parsed(end_dt)>>)

\* extract_bbox_struct that always takes the bounds of the geometry
extract_bbox_struct_bounds_only(geometry, item_bbox) ==
    LET b == bounds(geometry)
    IN  PyDict(<<<<S.xmin, b[1]>>, <<S.ymin, b[2]>>, <<S.xmax, b[3]>>, <<S.ymax, b[4]>>>>)

\* extract_bbox_struct that takes the item bbox only when it has 4 components
extract_bbox_struct_exactly_4(geometry, item_bbox) ==
    LET struct(b) == PyDict(<<<<S.xmin, b[1]>>, <<S.ymin, b[2]>>,
                              <<S.xmax, b[3]>>, <<S.ymax, b[4]>>>>)
    IN  IF ~truthy(item_bbox) THEN struct(bounds(geometry))
        ELSE IF item_bbox.t \in {"list", "tuple"}
        THEN IF Len(item_bbox.l) = 4 THEN struct(item_bbox.l) ELSE struct(bounds(geometry))
        ELSE Raised("TypeError")

\* extract_bbox_struct(geometry, item_bbox)
extract_bbox_struct(geometry, item_bbox) ==
    LET struct(b) == PyDict(<<<<S.xmin, b[1]>>, <<S.ymin, b[2]>>,
                              <<S.xmax, b[3]>>, <<S.ymax, b[4]>>>>)
    IN  IF ~truthy(item_bbox) THEN struct(bounds(geometry))
        ELSE IF item_bbox.t \in {"list", "tuple"}
        THEN IF Len(item_bbox.l) >= 4 THEN struct(item_bbox.l) ELSE struct(bounds(geometry))
        ELSE IF item_bbox.t = "str"
        THEN IF Len(item_bbox.s) >= 4
             THEN struct([k \in 1..4 |-> PyStr(<<item_bbox.s[k]>>)])
             ELSE struct(bounds(geometry))
        ELSE IF item_bbox.t = "dict"
        THEN IF Len(item_bbox.d) >= 4 THEN Raised("KeyError") ELSE struct(bounds(geometry))
        ELSE Raised("TypeError")

(***************************************************************************)
(* Assets and properties of a viz record (processing.py)                   *)
(***************************************************************************)
\* the table with the single-word patterns first
title_to_suffix_single_word_first ==
    <<<<S.SICD, S.sfx_SICD>>, <<S.SIDD, S.sfx_SIDD>>,
      <<S.CPHD, S.sfx_CPHD>>, <<S.TIFF, S.sfx_GEC>>,
      <<S.t_CSI_hy_SIDD, S.sfx_CSI_SIDD>>, <<S.t_CSI_SIDD, S.sfx_CSI_SIDD>>,
      <<S.t_CSI_TIFF, S.sfx_CSI>>, <<S.t_SICD_XML, S.sfx_SICD>>>>

\* lines 157-166: the title patterns and their public file suffixes, in the order
\* of the dict
title_to_suffix ==
    <<<<S.t_CSI_hy_SIDD, S.sfx_CSI_SIDD>>, <<S.t_CSI_SIDD, S.sfx_CSI_SIDD>>,
      <<S.t_CSI_TIFF, S.sfx_CSI>>, <<S.t_SICD_XML, S.sfx_SICD>>,
      <<S.SICD, S.sfx_SICD>>, <<S.SIDD, S.sfx_SIDD>>,
      <<S.CPHD, S.sfx_CPHD>>, <<S.TIFF, S.sfx_GEC>>>>

\* fix_umbra_asset_hrefs(assets_dict, item_url); `title_pattern in title` raises
\* TypeError for a title that is no str and no container
fix_umbra_asset_hrefs(assets, item_url) ==
    LET base_url == (IF rfind(item_url, "/") = 0 THEN item_url
                     ELSE SubSeq(item_url, 1, rfind(item_url, "/") - 1)) \o <<"/">>
        segments == split(item_url, "/")
        pattern == replace(segments[Len(segments)], S.stac_v2_json, <<>>)
        items == assets.d
        title_of(asset_obj) == dict_get_default(asset_obj.d, S.title, PyStr(<<>>))
        in(title_pattern, title) ==
            CASE title.t = "str" -> contains(title.s, title_pattern)
              [] title.t \in {"list", "tuple"} ->
                    \E k \in 1..Len(title.l) : title.l[k] = PyStr(title_pattern)
              [] title.t = "dict" -> dict_has(title.d, title_pattern)
        matching(title) == {j \in 1..Len(title_to_suffix) : in(title_to_suffix[j][1], title)}
        first(Q) == CHOOSE j \in Q : \A i \in Q : j <= i
        fixed_assets[k \in 0..Len(items)] ==
            IF k = 0 THEN PyDict(<<>>)
            ELSE LET key == items[k][1]
                     asset_obj == items[k][2]
                     title == title_of(asset_obj)
                 IN  IF IsRaise(fixed_assets[k - 1]) THEN fixed_assets[k - 1]
                     ELSE IF asset_obj.t # "dict" THEN fixed_assets[k - 1]
                     ELSE IF title.t \notin {"str", "list", "tuple", "dict"}
                     THEN Raised("TypeError")
                     ELSE IF matching(title) = {} THEN fixed_assets[k - 1]
                     ELSE PyDict(dict_set(fixed_assets[k - 1].d, key,
                            PyDict(<<<<S.href, PyStr(base_url \o pattern
                                        \o title_to_suffix[first(matching(title))][2])>>,
                                     <<S.type, dict_get_default(asset_obj.d, S.type, PyNone)>>,
                                     <<S.roles, normalize_value_for_parquet(
                                        dict_get_default(asset_obj.d, S.roles, PyNone))>>,
                                     <<S.title, title>>>>)))
    IN  IF assets.t # "dict" THEN PyDict(<<>>) ELSE fixed_assets[Len(items)]

\* compact_assets_dict that renames the keys of the raw Umbra assets first and
\* repairs the hrefs second
compact_assets_dict_rename_first(assets, item_url, provider) ==
    LET fixed == fix_umbra_asset_hrefs(PyDict(normalize_umbra_asset_keys(assets)), item_url)
        kept == SelectSeq(assets.d,
                    LAMBDA it : /\ it[2].t = "dict"
                                /\ truthy(dict_get_default(it[2].d, S.href, PyNone)))
    IN  IF assets.t # "dict" THEN PyDict(<<>>)
        ELSE IF provider = PyStr(S.umbra) THEN fixed
        ELSE PyDict([k \in 1..Len(kept) |->
                <<kept[k][1],
                  PyDict(<<<<S.href, dict_get(kept[k][2].d, S.href)>>,
                           <<S.type, dict_get_default(kept[k][2].d, S.type, PyNone)>>,
                           <<S.roles, normalize_value_for_parquet(
                                dict_get_default(kept[k][2].d, S.roles, PyNone))>>>>)>>])

\* compact_assets_dict that keeps every asset whose href is not None
compact_assets_dict_href_not_none(assets, item_url, provider) ==
    LET fixed == fix_umbra_asset_hrefs(assets, item_url)
        kept == SelectSeq(assets.d,
                    LAMBDA it : /\ it[2].t = "dict"
                                /\ dict_get_default(it[2].d, S.href, PyNone) # PyNone)
    IN  IF assets.t # "dict" THEN PyDict(<<>>)
        ELSE IF provider = PyStr(S.umbra)
        THEN IF IsRaise(fixed) THEN fixed ELSE PyDict(normalize_umbra_asset_keys(fixed))
        ELSE PyDict([k \in 1..Len(kept) |->
                <<kept[k][1],
                  PyDict(<<<<S.href, dict_get(kept[k][2].d, S.href)>>,
                           <<S.type, dict_get_default(kept[k][2].d, S.type, PyNone)>>,
                           <<S.roles, normalize_value_for_parquet(
                                dict_get_default(kept[k][2].d, S.roles, PyNone))>>>>)>>])

\* compact_assets_dict(assets_dict, item_url, provider)
compact_assets_dict(assets, item_url, provider) ==
    LET fixed == fix_umbra_asset_hrefs(assets, item_url)
        kept == SelectSeq(assets.d,
                    LAMBDA it : /\ it[2].t = "dict"
                                /\ truthy(dict_get_default(it[2].d, S.href, PyNone)))
    IN  IF assets.t # "dict" THEN PyDict(<<>>)
        ELSE IF provider = PyStr(S.umbra)
        THEN IF IsRaise(fixed) THEN fixed ELSE PyDict(normalize_umbra_asset_keys(fixed))
        ELSE PyDict([k \in 1..Len(kept) |->
                <<kept[k][1],
                  PyDict(<<<<S.href, dict_get(kept[k][2].d, S.href)>>,
                           <<S.type, dict_get_default(kept[k][2].d, S.type, PyNone)>>,
                           <<S.roles, normalize_value_for_parquet(
                                dict_get_default(kept[k][2].d, S.roles, PyNone))>>>>)>>])

\* flatten_stac_properties(stac_item, item_url, provider) for a mapping stac_item;
\* properties that have no copy() raise AttributeError, a list of properties
\* raises TypeError at the assignment of line 444
flatten_stac_properties(stac_item, item_url, provider) ==
    LET flatten(copied, assets, links) ==
            IF copied.t = "list" THEN Raised("TypeError")
            ELSE IF copied.t # "dict" THEN Raised("AttributeError")
            ELSE IF IsRaise(assets) THEN assets
            ELSE IF IsRaise(links) THEN links
            ELSE PyDict(dict_set(dict_set(normalize_value_for_parquet(copied).d,
                                          S.assets, assets), S.links, links))
    IN  flatten(dict_get_default(stac_item.d, S.properties, PyDict(<<>>)),
                compact_assets_dict(dict_get_default(stac_item.d, S.assets, PyDict(<<>>)),
                                    item_url, provider),
                resolve_links(dict_get_default(stac_item.d, S.links, PyList(<<>>)),
                              item_url, provider))

(***************************************************************************)
(* One item of the viz loop (main.py)                                      *)
(***************************************************************************)
\* lines 124-144: the record of an item that passed the test of line 122, or the
\* exception raised on the way
viz_record(item_json, item_url, provider) ==
    LET popped(flattened_props) ==
            SelectSeq(flattened_props.d,
                LAMBDA it : it[1] \notin {SM.start_datetime, SM.end_datetime, SM.datetime})
        record(dts, geom, bbox_struct, flattened_props) ==
            IF IsRaise(dts) THEN dts
            ELSE IF IsRaise(geom) THEN geom
            ELSE IF IsRaise(bbox_struct) THEN bbox_struct
            ELSE IF IsRaise(flattened_props) THEN flattened_props
            ELSE PyDict(dict_update(
                    <<<<SM.id, dict_get_default(item_json.d, SM.id, PyNone)>>,
                      <<SM.geometry, geom>>,
                      <<SM.bbox, bbox_struct>>,
                      <<SM.start_datetime, dts.l[1]>>,
                      <<SM.end_datetime, dts.l[2]>>,
                      <<SM.provider, provider>>>>,
                    popped(flattened_props)))
        with_geom(geom) ==
            record(extract_datetime_fields(
                       dict_get_default(item_json.d, SM.properties, PyDict(<<>>))),
                   geom,
                   extract_bbox_struct(geom, dict_get_default(item_json.d, SM.bbox, PyNone)),
                   flatten_stac_properties(item_json, item_url, provider))
    IN  with_geom(shape(dict_get_default(item_json.d, SM.geometry, PyNone)))

(***************************************************************************)
(* Tables: a DataFrame is the sequence of its rows, every row the sequence *)
(* of its <<column, cell>> pairs in the order of the columns; a table of   *)
(* the pipeline has at least one row.  (A sequence written as a function  *)
(* is closed with \o <<>>, which has TLC compute its elements once.)       *)
(***************************************************************************)
\* pd.DataFrame(records): the columns are the keys in the order of their first
\* appearance, a key that a record lacks gives a missing cell
DataFrame(records) ==
    LET keys[k \in 0..Len(records)] ==
            IF k = 0 THEN <<>> ELSE dict_update(keys[k - 1], records[k].d)
        columns == keys[Len(records)]
    IN  [i \in 1..Len(records) |->
            [j \in 1..Len(columns) |->
                <<columns[j][1], dict_get_default(records[i].d, columns[j][1], NaN)>>]
            \o <<>>] \o <<>>

\* gdf[col]: the cells of a column, top down
column(gdf, col) == [i \in 1..Len(gdf) |-> dict_get(gdf[i], col)] \o <<>>

\* gdf[col] = values
assign(gdf, col, values) ==
    [i \in 1..Len(gdf) |-> dict_set(gdf[i], col, values[i])] \o <<>>

\* gdf.drop(columns=cols), for the columns of cols that gdf has
drop(gdf, cols) ==
    [i \in 1..Len(gdf) |-> SelectSeq(gdf[i], LAMBDA cell : cell[1] \notin cols)] \o <<>>

RECURSIVE str_int(_)
\* str(n) of an int
str_int(n) ==
    LET digit == <<"0", "1", "2", "3", "4", "5", "6", "7", "8", "9">>
    IN  IF n < 0 THEN <<"-">> \o str_int(0 - n)
        ELSE IF n < 10 THEN <<digit[n + 1]>>
        ELSE str_int(n \div 10) \o <<digit[(n % 10) + 1]>>

RECURSIVE dumps(_, _)
\* json.dumps(v), and with repr the text that str() gives for a value inside a
\* container; for strs without quotes, backslashes and control characters
dumps(v, repr) ==
    LET quote == IF repr THEN <<"'">> ELSE <<"\"">>
        items(l) == join([k \in 1..Len(l) |-> dumps(l[k], repr)], S.comma_space)
    IN  CASE v.t = "None" -> IF repr THEN SA.None ELSE S.null
          [] v.t = "nan" -> IF repr THEN SA.nan ELSE S.NaN
          [] v.t = "str" -> quote \o v.s \o quote
          [] v.t = "num" -> str_int(v.n)
          [] v.t = "float" -> str_int(v.n) \o S.dot_zero
          [] v.t = "list" -> <<"[">> \o items(v.l) \o <<"]">>
          [] v.t = "tuple" ->
                IF ~repr THEN <<"[">> \o items(v.l) \o <<"]">>
                ELSE IF Len(v.l) = 1 THEN <<"(">> \o items(v.l) \o <<",", ")">>
                ELSE <<"(">> \o items(v.l) \o <<")">>
          [] v.t = "dict" ->
                <<"{">>
                \o join([k \in 1..Len(v.d) |->
                            quote \o v.d[k][1] \o quote \o S.colon_space
                            \o dumps(v.d[k][2], repr)], S.comma_space)
                \o <<"}">>

(***************************************************************************)
(* Schema unification (processing.py)                                      *)
(***************************************************************************)
\* serialize_mixed_type_columns(gdf)
serialize_mixed_type_columns(gdf) ==
    LET skipped == {S.geometry, S.bbox, S.id, S.provider, S.datetime,
                    S.start_datetime, S.end_datetime}
        non_null_values(col) == SelectSeq(column(gdf, col), LAMBDA v : v.t \notin {"None", "nan"})
        has_list(col) ==
            \E k \in 1..Len(non_null_values(col)) : non_null_values(col)[k].t = "list"
        has_non_list(col) ==
            \E k \in 1..Len(non_null_values(col)) : non_null_values(col)[k].t # "list"
    IN  [i \in 1..Len(gdf) |->
            [j \in 1..Len(gdf[i]) |->
                LET col == gdf[i][j][1]
                    x == gdf[i][j][2]
                IN  IF col \notin skipped /\ has_list(col) /\ has_non_list(col) /\ x.t # "None"
                    THEN <<col, PyStr(dumps(x, FALSE))>>
                    ELSE gdf[i][j]] \o <<>>] \o <<>>

\* serialize_complex_columns that serializes every non-null cell of a column
\* with a list or dict
serialize_complex_columns_every_cell(gdf) ==
    LET never_serialize == {S.geometry, S.bbox, S.links, S.assets, S.geometry_geojson,
                            S.start_datetime, S.end_datetime}
        has_complex(col) ==
            \E i \in 1..Len(gdf) : dict_get(gdf[i], col).t \in {"list", "dict"}
    IN  serialize_mixed_type_columns(
            [i \in 1..Len(gdf) |->
                [j \in 1..Len(gdf[i]) |->
                    LET col == gdf[i][j][1]
                        x == gdf[i][j][2]
                    IN  IF col \notin never_serialize /\ has_complex(col)
                           /\ x.t \notin {"None", "nan"}
                        THEN <<col, PyStr(dumps(normalize_value_for_parquet(x), FALSE))>>
                        ELSE gdf[i][j]] \o <<>>] \o <<>>)

\* serialize_complex_columns that looks for a list or dict in the first row only
serialize_complex_columns_first_row(gdf) ==
    LET never_serialize == {S.geometry, S.bbox, S.links, S.assets, S.geometry_geojson,
                            S.start_datetime, S.end_datetime}
        has_complex(col) == dict_get(gdf[1], col).t \in {"list", "dict"}
    IN  serialize_mixed_type_columns(
            [i \in 1..Len(gdf) |->
                [j \in 1..Len(gdf[i]) |->
                    LET col == gdf[i][j][1]
                        x == gdf[i][j][2]
                    IN  IF col \notin never_serialize /\ has_complex(col)
                           /\ x.t \in {"list", "dict"}
                        THEN <<col, PyStr(dumps(normalize_value_for_parquet(x), FALSE))>>
                        ELSE gdf[i][j]] \o <<>>] \o <<>>)

\* serialize_complex_columns(gdf)
serialize_complex_columns(gdf) ==
    LET never_serialize == {S.geometry, S.bbox, S.links, S.assets, S.geometry_geojson,
                            S.start_datetime, S.end_datetime}
        has_complex(col) ==
            \E i \in 1..Len(gdf) : dict_get(gdf[i], col).t \in {"list", "dict"}
    IN  serialize_mixed_type_columns(
            [i \in 1..Len(gdf) |->
                [j \in 1..Len(gdf[i]) |->
                    LET col == gdf[i][j][1]
                        x == gdf[i][j][2]
                    IN  IF col \notin never_serialize /\ has_complex(col)
                           /\ x.t \in {"list", "dict"}
                        THEN <<col, PyStr(dumps(normalize_value_for_parquet(x), FALSE))>>
                        ELSE gdf[i][j]] \o <<>>] \o <<>>)

\* geometry.force_2d()
force_2d(geom) ==
    IF geom.t # "geom" THEN geom
    ELSE [geom EXCEPT !.coords =
            [k \in 1..Len(geom.coords) |-> SubSeq(geom.coords[k], 1, 2)] \o <<>>]

\* a cleaning that adds geometry_geojson and does not call force_2d
clean_capella_gdf_without_force_2d(gdf) ==
    LET point(c) == PyTuple([k \in 1..Len(c) |-> PyFloat(c[k])])
        points(cs) == PyTuple([k \in 1..Len(cs) |-> point(cs[k])])
        mapping(geom) ==
            PyDict(<<<<S.type, PyStr(geom.type)>>,
                     <<S.coordinates,
                       IF geom.type = S.Point THEN point(geom.coords[1])
                       ELSE IF geom.type = S.LineString THEN points(geom.coords)
                       ELSE PyTuple(<<points(geom.coords)>>)>>>>)
    IN  IF \E i \in 1..Len(gdf) : dict_get(gdf[i], S.geometry).t # "geom"
        THEN Raised("AttributeError")
        ELSE [t |-> "gdf",
              rows |-> assign(gdf, S.geometry_geojson,
                          [i \in 1..Len(gdf) |->
                              PyStr(dumps(mapping(dict_get(gdf[i], S.geometry)), FALSE))])]

\* clean_capella_gdf(gdf), and clean_iceye_gdf and clean_umbra_gdf, which have
\* the same body: force_2d, then add_geometry_geojson; mapping(geom) raises
\* AttributeError for a null geometry
clean_capella_gdf(gdf) ==
    LET flat == assign(gdf, S.geometry,
                       [i \in 1..Len(gdf) |-> force_2d(dict_get(gdf[i], S.geometry))])
        point(c) == PyTuple([k \in 1..Len(c) |-> PyFloat(c[k])])
        points(cs) == PyTuple([k \in 1..Len(cs) |-> point(cs[k])])
        mapping(geom) ==
            PyDict(<<<<S.type, PyStr(geom.type)>>,
                     <<S.coordinates,
                       IF geom.type = S.Point THEN point(geom.coords[1])
                       ELSE IF geom.type = S.LineString THEN points(geom.coords)
                       ELSE PyTuple(<<points(geom.coords)>>)>>>>)
    IN  IF \E i \in 1..Len(gdf) : dict_get(gdf[i], S.geometry).t # "geom"
        THEN Raised("AttributeError")
        ELSE [t |-> "gdf",
              rows |-> assign(flat, S.geometry_geojson,
                          [i \in 1..Len(gdf) |->
                              PyStr(dumps(mapping(dict_get(flat[i], S.geometry)), FALSE))])]

(***************************************************************************)
(* Persistence (main.py)                                                   *)
(***************************************************************************)
\* _save_gdf(gdf, provider, output_subdir): the to_parquet calls in order, each
\* the path under OUTPUT_DIR and the table written
_save_gdf(gdf, provider, output_subdir) ==
    LET provider_output_dir == output_subdir \o <<"/">> \o provider.s \o <<"/">>
        cells == column(gdf, SM.sar_product_type)
        firsts == {i \in 1..Len(gdf) :
                      /\ cells[i].t \notin {"None", "nan"}
                      /\ \A k \in 1..(i - 1) : cells[k] # cells[i]}
        product_types == SelectSeq([i \in 1..Len(gdf) |-> IF i \in firsts THEN cells[i] ELSE NaN],
                                   LAMBDA v : v.t # "nan")
        text(v) == IF v.t = "str" THEN v.s ELSE dumps(v, TRUE)
        subset(product_type) ==
            drop(SelectSeq(gdf, LAMBDA row : dict_get(row, SM.sar_product_type) = product_type),
                 {SM.sar_product_type})
    IN  IF provider = PyStr(SM.capella) /\ dict_has(gdf[1], SM.sar_product_type)
        THEN [k \in 1..Len(product_types) |->
                [path |-> provider_output_dir \o SM.capella_ \o text(product_types[k])
                              \o SM.dot_parquet,
                 gdf |-> subset(product_types[k])]]
        ELSE <<[path |-> provider_output_dir \o provider.s \o SM.dot_parquet, gdf |-> gdf]>>

(***************************************************************************)
(* The ARD records (processing_ard.py)                                     *)
(***************************************************************************)
\* process_stac_item_ard(item_json, url, provider): the value returned or the
\* exception raised, and the mapping `record` as the call leaves it (NotRun when
\* the call made none); record is the item's own properties mapping when the
\* item has one
process_stac_item_ard(item_json, url, provider) ==
    LET properties == dict_get_default(item_json.d, SA.properties, PyDict(<<>>))
        record0 == dict_set(dict_set(dict_set(properties.d,
                        SA.geometry, dict_get_default(item_json.d, SA.geometry, PyNone)),
                        SA.id, dict_get_default(item_json.d, SA.id, PyNone)),
                        SA.stac_item_url, PyStr(url))
        assets == dict_get_default(item_json.d, SA.assets, PyDict(<<>>))
        segments == split(url, "/")
        col_name(text) == SA.asset_ \o text
        loop[k \in 0..Len(assets.d)] ==
            IF k = 0 THEN [result |-> NotRun, record |-> record0]
            ELSE LET asset_key == assets.d[k][1]
                     asset_data == assets.d[k][2]
                     title == dict_get_default(asset_data.d, SA.title, PyNone)
                     before == loop[k - 1]
                 IN  IF IsRaise(before.result) THEN before
                     ELSE IF asset_data.t # "dict"
                     THEN [before EXCEPT !.result = Raised("AttributeError")]
                     ELSE IF provider # PyStr(SA.umbra)
                     THEN [before EXCEPT !.record =
                            dict_set(@, col_name(replace(asset_key, <<"-">>, <<"_">>)),
                                     dict_get_default(asset_data.d, SA.href, PyNone))]
                     ELSE IF ~truthy(title) THEN before
                     ELSE IF title.t # "str"
                     THEN [before EXCEPT !.result = Raised("AttributeError")]
                     ELSE [before EXCEPT !.record =
                            dict_set(@,
                                col_name(lower(replace(replace(title.s, <<"-">>, <<"_">>),
                                                       <<".">>, <<"_">>))),
                                PyStr(replace(url, segments[Len(segments)], asset_key)))]
        done == loop[Len(assets.d)]
    IN  IF ~truthy(item_json) THEN [result |-> PyNone, record |-> NotRun]
        ELSE IF item_json.t # "dict" THEN [result |-> Raised("AttributeError"), record |-> NotRun]
        ELSE IF ~truthy(dict_get_default(item_json.d, SA.geometry, PyNone))
        THEN [result |-> PyNone, record |-> NotRun]
        ELSE IF properties.t # "dict" THEN [result |-> Raised("TypeError"), record |-> NotRun]
        ELSE IF assets.t # "dict" THEN [result |-> PyDict(record0), record |-> record0]
        ELSE IF IsRaise(done.result) THEN done
        ELSE [result |-> PyDict(done.record), record |-> done.record]

\* _sanitize_for_parquet(gdf): astype(str) on every column but geometry that
\* holds a list or a dict
_sanitize_for_parquet(gdf) ==
    LET is_complex(col) ==
            \E i \in 1..Len(gdf) : dict_get(gdf[i], col).t \in {"list", "dict"}
    IN  [i \in 1..Len(gdf) |->
            [j \in 1..Len(gdf[i]) |->
                LET col == gdf[i][j][1]
                    x == gdf[i][j][2]
                IN  IF col # SA.geometry /\ is_complex(col)
                    THEN <<col, PyStr(IF x.t = "str" THEN x.s ELSE dumps(x, TRUE))>>
                    ELSE gdf[i][j]] \o <<>>] \o <<>>

\* cleaner_func_ard(gdf_ard) of lines 183-190: clean_capella_gdf_ard,
\* clean_iceye_gdf_ard or clean_umbra_gdf_ard by provider
clean_gdf_ard(gdf, provider) ==
    LET dropped == drop(gdf, IF provider = PyStr(SM.iceye)
                             THEN {SA.proj_centroid, SA.raster_bands}
                             ELSE {SA.proj_centroid})
        item(x, k) == IF x.t = "list" /\ Len(x.l) >= k THEN x.l[k] ELSE PyNone
        shaped == IF ~dict_has(dropped[1], SA.proj_shape) THEN dropped
                  ELSE drop(assign(assign(dropped,
                                SA.rows, [i \in 1..Len(gdf) |->
                                            item(dict_get(dropped[i], SA.proj_shape), 1)]),
                                SA.cols, [i \in 1..Len(gdf) |->
                                            item(dict_get(dropped[i], SA.proj_shape), 2)]),
                            {SA.proj_shape})
        software == IF ~dict_has(shaped[1], SA.processing_software) THEN shaped
                    ELSE assign(shaped, SA.processing_software,
                            [i \in 1..Len(gdf) |->
                                LET x == dict_get(shaped[i], SA.processing_software)
                                IN  IF x.t = "dict"
                                    THEN dict_get_default(x.d, SA.processor, PyNone)
                                    ELSE x])
    IN  IF provider = PyStr(SM.capella) THEN _sanitize_for_parquet(shaped)
        ELSE IF provider = PyStr(SM.iceye) THEN _sanitize_for_parquet(software)
        ELSE IF provider = PyStr(SM.umbra)
        THEN _sanitize_for_parquet(assign(gdf, SA.geometry,
                [i \in 1..Len(gdf) |-> force_2d(dict_get(gdf[i], SA.geometry))]))
        ELSE gdf

(***************************************************************************)
(* Fetching (common.py)                                                    *)
(***************************************************************************)
\* fetch_json_tolerant(session, url), by what the request of the url does: a
\* body that parses to a document; a connection error, an error status
\* (raise_for_status) or a socket timeout, which are aiohttp.ClientError; the
\* expiry of the session's total timeout, which is asyncio.TimeoutError; a body
\* that is no JSON, for which response.json raises json.JSONDecodeError
fetch_json_tolerant(response) ==
    IF response.kind = "json" THEN response.body
    ELSE IF response.kind \in {"ClientConnectorError", "ClientResponseError",
                               "ServerTimeoutError"}
    THEN PyNone
    ELSE Raised(response.kind)

(***************************************************************************)
(* The fetched documents of a run                                          *)
(***************************************************************************)
\* the str values of the documents
V ==
    [asset_key |-> <<"2", "0", "2", "5", "-", "0", "6", "-", "2", "2", "-", "2", "3", "-", "5",
         "7", "-", "5", "2", "_", "U", "M", "B", "R", "A", "-", "1", "0", "_", "C", "S", "I",
         "_", "M", "M", ".", "t", "i", "f">>,
     Bogus |-> <<"B", "o", "g", "u", "s">>,
     CSI_TIFF |-> <<"C", "S", "I", "_", "T", "I", "F", "F">>,
     data |-> <<"d", "a", "t", "a">>,
     dt_bad |-> <<"n", "o", "t", "-", "a", "-", "d", "a", "t", "e">>,
     dt_later |-> <<"2", "0", "2", "4", "-", "0", "1", "-", "0", "3", "T", "0", "0", ":", "0",
         "0", ":", "0", "0", "Z">>,
     dt_utc |-> <<"2", "0", "2", "4", "-", "0", "1", "-", "0", "2", "T", "0", "3", ":", "0",
         "4", ":", "0", "5", "+", "0", "0", ":", "0", "0">>,
     dt_z |-> <<"2", "0", "2", "4", "-", "0", "1", "-", "0", "2", "T", "0", "3", ":", "0", "4",
         ":", "0", "5", "Z">>,
     GEO |-> <<"G", "E", "O">>,
     HH |-> <<"H", "H">>,
     image_tiff |-> <<"i", "m", "a", "g", "e", "/", "t", "i", "f", "f">>,
     item_dir |-> <<"h", "t", "t", "p", "s", ":", "/", "/", "u", "/", "t", "/">>,
     other |-> <<"o", "t", "h", "e", "r">>,
     private_href |-> <<"s", "3", ":", "/", "/", "p", "/", "x", ".", "t", "i", "f">>,
     README |-> <<"R", "E", "A", "D", "M", "E">>,
     SLC |-> <<"S", "L", "C">>,
     tags |-> <<"t", "a", "g", "s">>,
     text |-> <<"t", "e", "x", "t">>]

\* the URL of the k-th item of a provider
ItemUrl(k) == V.item_dir \o <<Digits[k]>> \o S.stac_v2_json

\* item documents: a well-formed item; an item whose properties use reserved
\* names; a point with an elevation and nothing else; an item with an explicit
\* bbox whose corners are swapped; a line with a bbox of two components; null
\* properties; a null geometry; a datetime that is no date; a geometry of an
\* unknown type; a null asset entry; an asset with a null title; a property
\* named geometry; and a document that is no mapping
Doc ==
    LET pair(x, y) == PyList(<<PyNum(x), PyNum(y)>>)
        polygon == PyDict(<<<<S.type, PyStr(S.Polygon)>>,
                            <<S.coordinates, PyList(<<PyList(<<pair(0, 0), pair(2, 0), pair(2, 1),
                                                              pair(0, 1), pair(0, 0)>>)>>)>>>>)
        asset == PyDict(<<<<S.href, PyStr(V.private_href)>>, <<S.type, PyStr(V.image_tiff)>>,
                          <<S.roles, PyList(<<PyStr(V.data)>>)>>, <<S.title, PyStr(V.CSI_TIFF)>>>>)
        dt == <<S.datetime, PyStr(V.dt_z)>>
        item(id, geometry, rest) ==
            PyDict(<<<<S.id, PyStr(<<id>>)>>, <<S.geometry, geometry>>>> \o rest)
    IN  [good |->
            item("a", polygon,
                 <<<<S.properties, PyDict(<<dt, <<SM.sar_product_type, PyStr(V.GEO)>>,
                                            <<V.tags, pair(1, 2)>>,
                                            <<SA.proj_shape, pair(3, 4)>>>>)>>,
                   <<S.assets, PyDict(<<<<V.asset_key, asset>>>>)>>,
                   <<S.links, PyList(<<Link(S.self, S.old_self_url),
                                       Link(S.parent, S.dot_dot_slash_catalog_json)>>)>>>>),
         reserved |->
            item("b", polygon,
                 <<<<S.properties, PyDict(<<<<S.id, PyStr(V.other)>>,
                                            <<S.provider, PyStr(V.other)>>,
                                            <<S.bbox, PyList(<<PyNum(1), PyNum(2), PyNum(3),
                                                               PyNum(4)>>)>>,
                                            <<S.start_datetime, PyStr(V.dt_utc)>>, dt>>)>>>>),
         point |->
            item("c", PyDict(<<<<S.type, PyStr(S.Point)>>,
                               <<S.coordinates, PyList(<<PyNum(3), PyNum(4), PyNum(9)>>)>>>>),
                 <<>>),
         swapped |->
            item("d", polygon,
                 <<<<S.bbox, PyList(<<PyNum(5), PyNum(5), PyNum(1), PyNum(1)>>)>>,
                   <<S.properties, PyDict(<<dt, <<SM.sar_product_type, PyStr(V.SLC)>>,
                                            <<V.tags, PyStr(V.text)>>>>)>>>>),
         line |->
            item("e", PyDict(<<<<S.type, PyStr(S.LineString)>>,
                               <<S.coordinates, PyList(<<pair(0, 5), pair(2, 5)>>)>>>>),
                 <<<<S.bbox, pair(1, 2)>>,
                   <<S.properties, PyDict(<<<<S.end_datetime, PyStr(V.dt_z)>>>>)>>>>),
         null_properties |-> item("f", polygon, <<<<S.properties, PyNone>>>>),
         null_geometry |-> item("g", PyNone, <<<<S.properties, PyDict(<<dt>>)>>>>),
         bad_datetime |->
            item("h", polygon,
                 <<<<S.properties, PyDict(<<<<S.datetime, PyStr(V.dt_bad)>>>>)>>>>),
         bad_geometry |->
            item("i", PyDict(<<<<S.type, PyStr(V.Bogus)>>>>),
                 <<<<S.properties, PyDict(<<dt>>)>>>>),
         null_asset |->
            item("j", polygon,
                 <<<<S.properties, PyDict(<<dt>>)>>,
                   <<S.assets, PyDict(<<<<V.HH, PyNone>>>>)>>>>),
         null_title |->
            item("k", polygon,
                 <<<<S.assets, PyDict(<<<<V.HH, PyDict(<<<<S.href, PyStr(V.private_href)>>,
                                                         <<S.title, PyNone>>>>)>>>>)>>>>),
         geometry_property |->
            item("l", polygon,
                 <<<<S.properties, PyDict(<<<<S.geometry, PyStr(V.text)>>, dt>>)>>>>),
         no_mapping |-> PyList(<<PyNum(1)>>)]

\* what the request of an item URL does: it gives one of the documents, or fails
Responses ==
    {[kind |-> "json", body |-> Doc[name]] : name \in DOMAIN Doc}
    \cup {[kind |-> kind, body |-> PyNone] :
            kind \in {"ClientConnectorError", "ClientResponseError", "ServerTimeoutError",
                      "TimeoutError", "JSONDecodeError"}}

(***************************************************************************)
(* main and process_provider (main.py): Spec                               *)
(*                                                                         *)
(* A task runs without interruption up to its next await.  The only await  *)
(* of process_provider that suspends it is the gather of the fetches (line *)
(* 116), so a task has two uninterruptible parts; the second is cut into   *)
(* one step per item and one per table, which no other task interleaves.   *)
(***************************************************************************)
MaxItems == 2

MaxProviders == 2

\* a task before its first step
NewTask ==
    [pc |-> "start", item_urls |-> <<>>, item_jsons |-> <<>>, i |-> 0,
     records_viz |-> <<>>, gdf_viz |-> NotRun, records_ard |-> <<>>, gdf_ard |-> NotRun,
     saved |-> <<>>, error |-> NotRun]

\* main(providers_to_process, output_format) is called: one provider with up to
\* MaxItems item URLs and every response to each, or several providers with at
\* most one item URL each
Init ==
    /\ KeysIdle
    /\ CallsIdle
    /\ LinksIdle
    /\ main_pc = "running"
    /\ output_format \in {SM.viz, SM.ard, SM.both}
    /\ \/ /\ \E provider \in {PyStr(S.capella), PyStr(S.iceye), PyStr(S.umbra),
                              PyStr(S.planet), PyNone} :
                providers_to_process = <<provider>>
          /\ \E n \in 0..MaxItems : \E r \in [1..n -> Responses] : responses = <<r>>
       \/ /\ \E n \in 2..MaxProviders :
                providers_to_process \in
                    DistinctSeqs({PyStr(S.capella), PyStr(S.iceye), PyStr(S.umbra)}, n)
          /\ responses \in
                [1..Len(providers_to_process) ->
                    {<<>>} \cup {<<[kind |-> "json", body |-> Doc.good]>>,
                                 <<[kind |-> "json", body |-> Doc.null_properties]>>,
                                 <<[kind |-> "JSONDecodeError", body |-> PyNone]>>}]
    /\ tasks = [p \in 1..Len(providers_to_process) |-> NewTask]

\* the event loop can start a part of a task: main waits in its gather and no
\* task is inside its second part
LoopFree ==
    /\ main_pc = "running"
    /\ \A q \in 1..Len(tasks) : tasks[q].pc \notin {"viz", "ard"}

\* the task raises e out of process_provider
Raise(p, e) == tasks' = [tasks EXCEPT ![p].pc = "raised", ![p].error = e]

\* a loop of writes that the first failed write ends
to_parquet_until_failure(saved, writes, failed) ==
    LET disk[k \in 0..Len(writes)] ==
            IF k = 0 THEN saved
            ELSE IF \E m \in 1..k : m \in failed THEN disk[k - 1]
            ELSE dict_set(disk[k - 1], writes[k].path, writes[k].gdf)
    IN  disk[Len(writes)]

\* what is on disk after the to_parquet calls of writes, of which those at the
\* positions of failed raise (caught and printed in _save_gdf)
to_parquet(saved, writes, failed) ==
    LET disk[k \in 0..Len(writes)] ==
            IF k = 0 THEN saved
            ELSE IF k \in failed THEN disk[k - 1]
            ELSE dict_set(disk[k - 1], writes[k].path, writes[k].gdf)
    IN  disk[Len(writes)]

\* lines 84-112: the first print calls provider.upper(), which a provider that
\* is no str does not have; then the discovery of the item URLs, which finds
\* them or fails.  A failure of the S3 listing of umbra is not caught; capella
\* and iceye catch theirs and are left without item URLs; another provider has
\* no discovery.
Discover(p) ==
    /\ LoopFree
    /\ tasks[p].pc = "start"
    /\ \E found \in BOOLEAN :
          LET provider == providers_to_process[p]
              known == provider \in {PyStr(SM.capella), PyStr(SM.iceye), PyStr(SM.umbra)}
              item_urls == IF found /\ known
                           THEN [k \in 1..Len(responses[p]) |-> ItemUrl(k)]
                           ELSE <<>>
          IN  IF provider.t # "str" THEN Raise(p, Raised("AttributeError"))
              ELSE IF ~found /\ provider = PyStr(SM.umbra) THEN Raise(p, Raised("OSError"))
              ELSE IF item_urls = <<>> THEN tasks' = [tasks EXCEPT ![p].pc = "done"]
              ELSE tasks' = [tasks EXCEPT ![p].pc = "fetching", ![p].item_urls = item_urls]
    /\ UNCHANGED <<keys_vars, links_vars, call_vars, providers_to_process, output_format, responses,
                   main_pc>>

\* lines 115-119: the gather of the fetches returns the documents, or raises
\* the exception of one of the fetches that raised
Fetch(p) ==
    /\ LoopFree
    /\ tasks[p].pc = "fetching"
    /\ LET item_jsons == [k \in 1..Len(responses[p]) |-> fetch_json_tolerant(responses[p][k])]
           raised == {k \in 1..Len(item_jsons) : IsRaise(item_jsons[k])}
       IN  IF raised # {}
           THEN \E k \in raised : Raise(p, item_jsons[k])
           ELSE tasks' = [tasks EXCEPT
                    ![p].pc = IF output_format \in {SM.both, SM.viz} THEN "viz" ELSE "ard",
                    ![p].item_jsons = item_jsons,
                    ![p].i = 1]
    /\ UNCHANGED <<keys_vars, links_vars, call_vars, providers_to_process, output_format, responses,
                   main_pc>>

\* a viz loop that, with output format "both", reads each item after
\* process_stac_item_ard has written into its properties
VizStep_after_ard(p) ==
    /\ main_pc = "running"
    /\ tasks[p].pc = "viz"
    /\ tasks[p].i <= Len(tasks[p].item_jsons)
    /\ \E fetched \in {tasks[p].item_jsons[tasks[p].i]} :
       \E call \in {IF output_format = SM.both
                    THEN process_stac_item_ard(fetched, tasks[p].item_urls[tasks[p].i],
                                               providers_to_process[p])
                    ELSE [record |-> NotRun, result |-> PyNone]} :
       \E item_json \in {IF call.record # NotRun /\ dict_has(fetched.d, SA.properties)
                         THEN PyDict(dict_set(fetched.d, SA.properties, PyDict(call.record)))
                         ELSE fetched} :
       IF ~truthy(item_json) THEN tasks' = [tasks EXCEPT ![p].i = @ + 1]
       ELSE IF item_json.t # "dict" THEN Raise(p, Raised("AttributeError"))
       ELSE IF ~truthy(dict_get_default(item_json.d, SM.geometry, PyNone))
       THEN tasks' = [tasks EXCEPT ![p].i = @ + 1]
       ELSE \E record \in {viz_record(item_json, tasks[p].item_urls[tasks[p].i],
                                       providers_to_process[p])} :
               IF IsRaise(record) THEN tasks' = [tasks EXCEPT ![p].i = @ + 1]
               ELSE tasks' = [tasks EXCEPT ![p].i = @ + 1,
                                           ![p].records_viz = Append(@, record)]
    /\ UNCHANGED <<keys_vars, links_vars, call_vars, providers_to_process, output_format, responses,
                   main_pc>>

\* a viz loop that ends at the first item whose normalization raises
VizStep_break_on_error(p) ==
    /\ main_pc = "running"
    /\ tasks[p].pc = "viz"
    /\ tasks[p].i <= Len(tasks[p].item_jsons)
    /\ \E item_json \in {tasks[p].item_jsons[tasks[p].i]} :
       IF ~truthy(item_json) THEN tasks' = [tasks EXCEPT ![p].i = @ + 1]
       ELSE IF item_json.t # "dict" THEN Raise(p, Raised("AttributeError"))
       ELSE IF ~truthy(dict_get_default(item_json.d, SM.geometry, PyNone))
       THEN tasks' = [tasks EXCEPT ![p].i = @ + 1]
       ELSE \E record \in {viz_record(item_json, tasks[p].item_urls[tasks[p].i],
                                       providers_to_process[p])} :
               IF IsRaise(record)
               THEN tasks' = [tasks EXCEPT ![p].i = Len(tasks[p].item_jsons) + 1]
               ELSE tasks' = [tasks EXCEPT ![p].i = @ + 1,
                                           ![p].records_viz = Append(@, record)]
    /\ UNCHANGED <<keys_vars, links_vars, call_vars, providers_to_process, output_format, responses,
                   main_pc>>

\* lines 121-149: one item of the viz loop.  The test of line 122 is outside the
\* try: a document that is no mapping raises out of process_provider.
VizStep(p) ==
    /\ main_pc = "running"
    /\ tasks[p].pc = "viz"
    /\ tasks[p].i <= Len(tasks[p].item_jsons)
    /\ \E item_json \in {tasks[p].item_jsons[tasks[p].i]} :
       IF ~truthy(item_json) THEN tasks' = [tasks EXCEPT ![p].i = @ + 1]
       ELSE IF item_json.t # "dict" THEN Raise(p, Raised("AttributeError"))
       ELSE IF ~truthy(dict_get_default(item_json.d, SM.geometry, PyNone))
       THEN tasks' = [tasks EXCEPT ![p].i = @ + 1]
       ELSE \E record \in {viz_record(item_json, tasks[p].item_urls[tasks[p].i],
                                       providers_to_process[p])} :
               IF IsRaise(record) THEN tasks' = [tasks EXCEPT ![p].i = @ + 1]
               ELSE tasks' = [tasks EXCEPT ![p].i = @ + 1,
                                           ![p].records_viz = Append(@, record)]
    /\ UNCHANGED <<keys_vars, links_vars, call_vars, providers_to_process, output_format, responses,
                   main_pc>>

\* lines 151-165: the viz table is built, cleaned, unified and saved; some of
\* the writes may fail.  GeoDataFrame raises TypeError for a geometry column
\* with a cell that is neither a geometry nor missing.
VizFinish(p) ==
    /\ main_pc = "running"
    /\ tasks[p].pc = "viz"
    /\ tasks[p].i > Len(tasks[p].item_jsons)
    /\ LET provider == providers_to_process[p]
           next_pc == IF output_format \in {SM.both, SM.ard} THEN "ard" ELSE "done"
       IN  IF tasks[p].records_viz = <<>>
           THEN tasks' = [tasks EXCEPT ![p].pc = next_pc, ![p].i = 1]
           ELSE \E df_viz \in {DataFrame(tasks[p].records_viz)} :
                \E cleaned \in
                    {IF provider \in {PyStr(SM.capella), PyStr(SM.iceye), PyStr(SM.umbra)}
                     THEN clean_capella_gdf(df_viz)
                     ELSE [t |-> "gdf", rows |-> df_viz]} :
                  IF \E i \in 1..Len(df_viz) :
                        dict_get(df_viz[i], SM.geometry).t \notin {"geom", "None", "nan"}
                  THEN Raise(p, Raised("TypeError"))
                  ELSE IF IsRaise(cleaned) THEN Raise(p, cleaned)
                  ELSE \E gdf_viz \in {serialize_complex_columns(cleaned.rows)} :
                       \E writes \in {_save_gdf(gdf_viz, provider, SM.viz)} :
                       \E failed \in SUBSET (1..Len(writes)) :
                          tasks' = [tasks EXCEPT
                              ![p].pc = next_pc,
                              ![p].i = 1,
                              ![p].gdf_viz = [t |-> "gdf", rows |-> gdf_viz],
                              ![p].saved = to_parquet(@, writes, failed)]
    /\ UNCHANGED <<keys_vars, links_vars, call_vars, providers_to_process, output_format, responses,
                   main_pc>>

\* lines 170-173: one item of the ARD loop; process_stac_item_ard writes into
\* the properties mapping of the item, and nothing catches what it raises
ArdStep(p) ==
    /\ main_pc = "running"
    /\ tasks[p].pc = "ard"
    /\ tasks[p].i <= Len(tasks[p].item_jsons)
    /\ \E i \in {tasks[p].i} :
       \E item_json \in {tasks[p].item_jsons[i]} :
       \E call \in {process_stac_item_ard(item_json, tasks[p].item_urls[i],
                                          providers_to_process[p])} :
       LET written == IF call.record # NotRun /\ dict_has(item_json.d, SA.properties)
                      THEN PyDict(dict_set(item_json.d, SA.properties, PyDict(call.record)))
                      ELSE item_json
       IN  IF IsRaise(call.result)
           THEN tasks' = [tasks EXCEPT ![p].pc = "raised", ![p].error = call.result,
                                       ![p].item_jsons[i] = written]
           ELSE tasks' = [tasks EXCEPT
                    ![p].i = @ + 1,
                    ![p].item_jsons[i] = written,
                    ![p].records_ard = IF truthy(call.result) THEN Append(@, call.result)
                                       ELSE @]
    /\ UNCHANGED <<keys_vars, links_vars, call_vars, providers_to_process, output_format, responses,
                   main_pc>>

\* lines 175-192: the ARD table is built, its geometries parsed (line 177, not
\* caught), cleaned and saved; some of the writes may fail
ArdFinish(p) ==
    /\ main_pc = "running"
    /\ tasks[p].pc = "ard"
    /\ tasks[p].i > Len(tasks[p].item_jsons)
    /\ LET provider == providers_to_process[p]
       IN  IF tasks[p].records_ard = <<>> THEN tasks' = [tasks EXCEPT ![p].pc = "done"]
           ELSE \E df_ard \in {DataFrame(tasks[p].records_ard)} :
                \E geometries \in
                    {[i \in 1..Len(df_ard) |-> shape(dict_get(df_ard[i], SM.geometry))]} :
                  IF \E i \in 1..Len(df_ard) : IsRaise(geometries[i])
                  THEN Raise(p, geometries[CHOOSE i \in 1..Len(df_ard) :
                                    /\ IsRaise(geometries[i])
                                    /\ \A k \in 1..(i - 1) : ~IsRaise(geometries[k])])
                  ELSE \E gdf \in
                          {assign(assign(drop(df_ard, {SM.geometry}), SM.geometry, geometries),
                                  SM.provider, [i \in 1..Len(df_ard) |-> provider])} :
                       \E gdf_ard \in {clean_gdf_ard(gdf, provider)} :
                       \E writes \in {_save_gdf(gdf_ard, provider, SM.ard)} :
                       \E failed \in SUBSET (1..Len(writes)) :
                          tasks' = [tasks EXCEPT
                              ![p].pc = "done",
                              ![p].gdf_ard = [t |-> "gdf", rows |-> gdf_ard],
                              ![p].saved = to_parquet(@, writes, failed)]
    /\ UNCHANGED <<keys_vars, links_vars, call_vars, providers_to_process, output_format, responses,
                   main_pc>>

\* line 203: the gather of main returns when every task has returned
MainReturn ==
    /\ main_pc = "running"
    /\ \A q \in 1..Len(tasks) : tasks[q].pc = "done"
    /\ main_pc' = "done"
    /\ UNCHANGED <<keys_vars, links_vars, call_vars, providers_to_process, output_format, responses,
                   tasks>>

\* line 203: gather has no return_exceptions, so the exception of a task is
\* raised out of main; asyncio.run then cancels the tasks that wait for their
\* fetches
MainRaise ==
    /\ LoopFree
    /\ \E q \in 1..Len(tasks) : tasks[q].pc = "raised"
    /\ \A q \in 1..Len(tasks) : tasks[q].pc # "start"
    /\ main_pc' = "raised"
    /\ tasks' = [q \in 1..Len(tasks) |->
                    IF tasks[q].pc = "fetching" THEN [tasks[q] EXCEPT !.pc = "cancelled"]
                    ELSE tasks[q]]
    /\ UNCHANGED <<keys_vars, links_vars, call_vars, providers_to_process, output_format, responses>>

Next ==
    \/ \E p \in 1..Len(tasks) : Discover(p)
    \/ \E p \in 1..Len(tasks) : Fetch(p)
    \/ \E p \in 1..Len(tasks) : VizStep(p)
    \/ \E p \in 1..Len(tasks) : VizFinish(p)
    \/ \E p \in 1..Len(tasks) : ArdStep(p)
    \/ \E p \in 1..Len(tasks) : ArdFinish(p)
    \/ MainReturn
    \/ MainRaise

Spec == Init /\ [][Next]_vars

(***************************************************************************)
(* Records of the viz loop                                                 *)
(***************************************************************************)
\* C1: every record that the viz loop appends holds, under each reserved key
\* (id, geometry, bbox, start_datetime, end_datetime, provider), the value that
\* the pipeline derived from the item (its id, its parsed geometry, the bbox
\* struct, the parsed start and end instants, the provider argument), also when
\* the properties of the item have a key of that name.
C1_ReservedKeysTakePrecedence ==
    [][\A p \in 1..Len(tasks) :
          Len(tasks'[p].records_viz) > Len(tasks[p].records_viz) =>
              LET item_json == tasks[p].item_jsons[tasks[p].i]
                  r == tasks'[p].records_viz[Len(tasks'[p].records_viz)].d
                  geom == shape(dict_get_default(item_json.d, SM.geometry, PyNone))
                  dts == extract_datetime_fields(
                             dict_get_default(item_json.d, SM.properties, PyDict(<<>>)))
              IN  /\ dict_get(r, SM.id) = dict_get_default(item_json.d, SM.id, PyNone)
                  /\ dict_get(r, SM.geometry) = geom
                  /\ dict_get(r, SM.bbox) =
                        extract_bbox_struct(geom, dict_get_default(item_json.d, SM.bbox, PyNone))
                  /\ dict_get(r, SM.start_datetime) = dts.l[1]
                  /\ dict_get(r, SM.end_datetime) = dts.l[2]
                  /\ dict_get(r, SM.provider) = providers_to_process[p]]_vars

C5_VizLoopSkipsOnlyTheRaisingItem ==
    /\ [](\A p \in 1..Len(tasks) :
            tasks[p].pc = "viz" =>
                LET outcome(k) ==
                        LET item_json == tasks[p].item_jsons[k]
                        IN  IF ~truthy(item_json) \/ item_json.t # "dict" THEN PyNone
                            ELSE IF ~truthy(dict_get_default(item_json.d, SM.geometry, PyNone))
                            THEN PyNone
                            ELSE viz_record(item_json, tasks[p].item_urls[k],
                                            providers_to_process[p])
                IN  tasks[p].records_viz =
                        SelectSeq([k \in 1..(tasks[p].i - 1) |-> outcome(k)],
                                  LAMBDA r : r.t = "dict"))
    /\ [][\A p \in 1..Len(tasks) :
            (/\ tasks[p].pc = "viz"
             /\ tasks[p].i <= Len(tasks[p].item_jsons)
             /\ tasks[p].item_jsons[tasks[p].i].t \in {"dict", "None"}
             /\ tasks'[p] # tasks[p])
            => tasks'[p].pc = "viz" /\ tasks'[p].i = tasks[p].i + 1]_vars

\* the loop has passed an item whose datetime is no date and has then appended
\* the record of the next item
C5_Witness ==
    \E p \in 1..Len(tasks) :
        /\ tasks[p].pc = "viz"
        /\ tasks[p].i = 3
        /\ tasks[p].item_jsons[1] = Doc.bad_datetime
        /\ IsRaise(viz_record(tasks[p].item_jsons[1], tasks[p].item_urls[1],
                              providers_to_process[p]))
        /\ Len(tasks[p].records_viz) = 1
        /\ dict_get(tasks[p].records_viz[1].d, SM.id)
             = dict_get(tasks[p].item_jsons[2].d, SM.id)

(***************************************************************************)
(* The unified viz table                                                   *)
(***************************************************************************)
\* C3: in the table that serialize_complex_columns returns no column, the
\* columns that are never serialized included, holds both a list and a value
\* that is neither a list nor missing.
C3_SingleShapePerColumn ==
    \A p \in 1..Len(tasks) :
        tasks[p].gdf_viz # NotRun =>
            LET gdf == tasks[p].gdf_viz.rows
            IN  \A col \in dict_keys(gdf[1]) :
                    ~\E i, j \in 1..Len(gdf) :
                        /\ dict_get(gdf[i], col).t = "list"
                        /\ dict_get(gdf[j], col).t \notin {"list", "None", "nan"}

(***************************************************************************)
(* Errors of a run                                                         *)
(***************************************************************************)
\* C6: no error of a record or of a provider aborts the run: main does not
\* raise, and no task raises out of process_provider or is cancelled.
C6_NoErrorAbortsTheRun ==
    /\ main_pc # "raised"
    /\ \A p \in 1..Len(tasks) : tasks[p].pc \notin {"raised", "cancelled"}

\* C7: fetch_json_tolerant gives a document or None for every response and
\* never raises, so that the gather of the fetches of a task never fails: once
\* a task has started its fetches none of them raises, and a task that raised
\* had got its documents before.
C7_FetchNeverRaises ==
    \A p \in 1..Len(tasks) :
        tasks[p].item_urls # <<>> /\ tasks[p].pc \notin {"fetching", "cancelled"} =>
            /\ \A k \in 1..Len(responses[p]) :
                    ~IsRaise(fetch_json_tolerant(responses[p][k]))
            /\ tasks[p].item_jsons # <<>>

(***************************************************************************)
(* The helpers of processing.py called on their own: SpecCalls             *)
(***************************************************************************)
MaxCallAssets == 2

\* the key of the k-th asset of an assets dict
CallKey(k) == <<"a", Digits[k]>>

\* dict(title=..., ...) without the fields whose value is Absent
Absent == [t |-> "absent"]

dict_of(pairs) == PyDict(SelectSeq(pairs, LAMBDA kv : kv[2] # Absent))

\* titles of Umbra assets: the patterns of the table, a title with two single-word
\* patterns, a title with no pattern, an empty title, a null title, no title
CallTitles ==
    {PyStr(S.t_CSI_hy_SIDD), PyStr(S.t_CSI_SIDD), PyStr(S.t_CSI_TIFF), PyStr(S.t_SICD_XML),
     PyStr(S.SICD), PyStr(S.SIDD), PyStr(S.CPHD), PyStr(S.TIFF),
     PyStr(S.CPHD \o <<" ">> \o S.SIDD), PyStr(V.README), PyStr(<<>>), PyNone, Absent}

CallRoles == {PyTuple(<<PyStr(V.data), NpNum(1)>>), Absent}

\* entries of the assets dict of an Umbra item
UmbraAssetObjects ==
    {dict_of(<<<<S.href, PyStr(V.private_href)>>, <<S.type, PyStr(V.image_tiff)>>,
               <<S.roles, roles>>, <<S.title, title>>>>) :
        roles \in CallRoles, title \in CallTitles}
    \cup {PyNone, PyStr(V.text)}

\* entries of the assets dict of an item of another provider
CallHrefs == {PyStr(V.private_href), PyStr(<<>>), PyNone, Absent}

DefaultAssetObjects ==
    {dict_of(<<<<S.href, href>>, <<S.type, type>>, <<S.roles, roles>>,
               <<S.title, PyStr(V.SLC)>>>>) :
        href \in CallHrefs, type \in {PyStr(V.image_tiff), Absent},
        roles \in CallRoles}
    \cup {PyNone, PyStr(V.text)}

\* keys of Umbra assets; the first two are renamed to the same name
UmbraKeys ==
    {V.asset_key,
     U.ts1999 \o <<"_">> \o U.sat04 \o <<"_">> \o D.CSI_MM \o E.tif,
     MmJsonKey}

\* the assets dicts of an Umbra item with at most MaxCallAssets entries: under
\* keys of the catalog, assets with a title of the table, another title or none,
\* and an entry that is no mapping
UmbraAssetDicts ==
    LET objects == {dict_of(<<<<S.href, PyStr(V.private_href)>>,
                              <<S.type, PyStr(V.image_tiff)>>,
                              <<S.roles, PyTuple(<<PyStr(V.data), NpNum(1)>>)>>,
                              <<S.title, title>>>>) :
                        title \in {PyStr(S.t_CSI_TIFF), PyStr(S.SIDD), PyStr(V.README), Absent}}
                   \cup {PyNone}
    IN  {PyDict([k \in 1..Len(entries[1]) |-> <<entries[1][k], entries[2][k]>>] \o <<>>) :
            entries \in UNION {DistinctSeqs(UmbraKeys, n) \X [1..n -> objects] :
                                  n \in 0..MaxCallAssets}}

\* the assets dicts with at most MaxCallAssets entries taken from Objects
AssetDicts(Objects) ==
    {PyDict([k \in 1..Len(objs) |-> <<CallKey(k), objs[k]>>] \o <<>>) :
        objs \in UNION {[1..n -> Objects] : n \in 0..MaxCallAssets}}

\* providers without special asset rules
DefaultProviders == {PyStr(S.capella), PyStr(S.iceye), PyStr(S.planet), PyNone}

\* values of a datetime property: none, null, one instant written with Z and
\* with +00:00, a later instant, and a text that is no date
CallDatetimes ==
    {Absent, PyNone, PyStr(V.dt_z), PyStr(V.dt_utc), PyStr(V.dt_later), PyStr(V.dt_bad)}

\* geometries: a point, a line and a polygon
CallGeometries ==
    {[t |-> "geom", type |-> S.Point, coords |-> <<<<3, 4>>>>],
     [t |-> "geom", type |-> S.LineString, coords |-> <<<<5, 1>>, <<2, 7>>>>],
     [t |-> "geom", type |-> S.Polygon,
      coords |-> <<<<0, 0>>, <<4, 0>>, <<4, 3>>, <<0, 3>>, <<0, 0>>>>]}

\* item bboxes: null, empty, of 2 and 3 components, of 4 components with the
\* corners swapped, as a tuple, and of 6 components
CallBboxes ==
    {PyNone, PyList(<<>>), PyList(<<PyNum(1), PyNum(2)>>),
     PyList(<<PyNum(1), PyNum(2), PyNum(3)>>),
     PyList(<<PyNum(5), PyNum(6), PyNum(1), PyNum(2)>>),
     PyTuple(<<PyNum(1), PyNum(2), PyNum(5), PyNum(6)>>),
     PyList(<<PyNum(1), PyNum(2), PyNum(0), PyNum(3), PyNum(4), PyNum(9)>>)}

MaxValueLen == 2

\* values without members: null, a str, a bool, a number, a numpy number
CallAtoms == {PyNone, PyStr(V.text), PyBool(TRUE), PyNum(1), NpNum(2)}

\* the lists, tuples and dicts of Members
Containers(Members) ==
    {PyList(l) : l \in Members} \cup {PyTuple(l) : l \in Members}
    \cup {PyDict([k \in 1..Len(l) |-> <<CallKey(k), l[k]>>] \o <<>>) : l \in Members}

\* containers of at most MaxValueLen values without members
FlatValues == Containers(UNION {[1..n -> CallAtoms] : n \in 0..MaxValueLen})

\* values of the normalizer: without members, flat containers, and containers
\* of a flat container next to a value without members, in both orders
CallValues ==
    CallAtoms \cup FlatValues
    \cup Containers({<<inner, atom>> : inner \in FlatValues, atom \in CallAtoms}
                    \cup {<<atom, inner>> : inner \in FlatValues, atom \in CallAtoms})

MaxRows == 3

\* the column of a table given to the schema unification next to the provider
\* column: a column of properties, and columns that one of the passes skips
CallColumns == {V.tags, S.links, S.assets, S.bbox, S.geometry, S.start_datetime, S.id}

\* the cells of that column: a list, a dict, a str, a number, None and a missing value
CallCells ==
    {PyList(<<PyNum(1), PyNum(2)>>), PyDict(<<<<CallKey(1), PyNum(1)>>>>), PyStr(V.text),
     PyNum(1), PyNone, NaN}

\* tables of at most MaxRows rows
CallTables ==
    {[i \in 1..Len(cells) |-> <<<<S.provider, PyStr(S.capella)>>, <<col, cells[i]>>>>] \o <<>> :
        col \in CallColumns, cells \in UNION {[1..n -> CallCells] : n \in 1..MaxRows}}

CallItemUrls == {ItemUrl(1), S.item_url}

\* cells of the sar:product_type column: product types, one of them a number and
\* one the text of that number, and missing values
ProductTypes == {PyStr(V.GEO), PyStr(V.SLC), PyStr(<<"1">>), PyNum(1), PyNone, NaN}

\* tables of at most MaxRows rows with an id and a product type, and one without
\* the product type column
SaveTables ==
    {[i \in 1..Len(cells) |->
        <<<<S.id, PyStr(<<Digits[i]>>)>>, <<SM.sar_product_type, cells[i]>>>>] \o <<>> :
        cells \in UNION {[1..n -> ProductTypes] : n \in 1..MaxRows}}
    \cup {<<<<<<S.id, PyStr(<<Digits[1]>>)>>>>, <<<<S.id, PyStr(<<Digits[2]>>)>>>>>>}

\* load_provider_gdf(parquet_root, provider, dtype) of tools/utils.py: the table
\* read from the path of discover_parquet_paths; read_parquet raises when there
\* is no such file, and nothing here returns None
load_provider_gdf(file_exists) ==
    IF file_exists THEN [t |-> "gdf", rows |-> <<>>] ELSE Raised("FileNotFoundError")

\* main(argv) of tools/get_kmz.py, after parse_args, in an environment env: the
\* exit code returned, or the exception raised, with whether a parquet was read
\* and whether the KMZ was written
get_kmz_main(env) ==
    LET exit(code, read) == [t |-> "exit", code |-> code, read |-> read, kmz |-> code = 0]
        gdf == load_provider_gdf(env.file_exists)
    IN  IF env.provider # S.capella THEN exit(1, FALSE)
        ELSE IF IsRaise(gdf) THEN gdf
        ELSE IF gdf = PyNone THEN exit(2, TRUE)
        ELSE IF ~env.id_in_table THEN exit(3, TRUE)
        ELSE IF ~env.deps_installed THEN exit(4, TRUE)
        ELSE IF ~truthy(env.asset_metadata) THEN exit(5, TRUE)
        ELSE IF ~env.fetch_ok THEN exit(6, TRUE)
        ELSE IF ~env.build_ok THEN exit(7, TRUE)
        ELSE exit(0, TRUE)

\* the environments of a run of the get_kmz CLI: the provider given, whether the
\* ARD parquet of the dtype exists, whether the id is in it, whether pyproj,
\* simplekml and scipy import, the asset_metadata of the row, and whether the
\* fetch and the build succeed
KmzEnvironments ==
    [provider : {S.capella, S.iceye, S.umbra},
     file_exists : BOOLEAN, id_in_table : BOOLEAN, deps_installed : BOOLEAN,
     asset_metadata : {PyStr(ItemUrl(1)), PyStr(<<>>), PyNone},
     fetch_ok : BOOLEAN, build_ok : BOOLEAN]

\* the arguments of each helper
CallArguments(function) ==
    CASE function = "fix_umbra_asset_hrefs" ->
            {<<assets, PyStr(item_url)>> :
                assets \in AssetDicts(UmbraAssetObjects) \cup {PyNone},
                item_url \in CallItemUrls}
      [] function = "compact_assets_dict" ->
            {<<assets, PyStr(ItemUrl(1)), provider>> :
                assets \in AssetDicts(DefaultAssetObjects)
                            \cup {PyNone, PyList(<<>>), PyStr(V.text)},
                provider \in DefaultProviders}
            \cup {<<assets, PyStr(ItemUrl(1)), PyStr(S.umbra)>> :
                    assets \in UmbraAssetDicts}
      [] function = "extract_datetime_fields" ->
            {<<dict_of(<<<<S.start_datetime, start>>, <<S.datetime, datetime>>,
                         <<S.end_datetime, end>>>>)>> :
                start \in CallDatetimes, datetime \in CallDatetimes, end \in CallDatetimes}
      [] function = "extract_bbox_struct" ->
            {<<geometry, item_bbox>> : geometry \in CallGeometries, item_bbox \in CallBboxes}
      [] function = "normalize_value_for_parquet" -> {<<value>> : value \in CallValues}
      [] function \in {"serialize_complex_columns", "serialize_mixed_type_columns"} ->
            {<<gdf>> : gdf \in CallTables}
      [] function = "get_kmz.main" -> {<<env>> : env \in KmzEnvironments}
      [] function = "_save_gdf" ->
            {<<gdf, PyStr(provider), output_subdir>> :
                gdf \in SaveTables, provider \in {S.capella, S.iceye},
                output_subdir \in {SM.viz, SM.ard}}

InitCalls ==
    /\ KeysIdle
    /\ LinksIdle
    /\ MainIdle
    /\ called \in {"fix_umbra_asset_hrefs", "compact_assets_dict", "extract_datetime_fields",
                   "extract_bbox_struct", "normalize_value_for_parquet",
                   "serialize_complex_columns", "serialize_mixed_type_columns", "_save_gdf",
                   "get_kmz.main"}
    /\ arguments \in CallArguments(called)
    /\ returned = NotRun

\* fix_umbra_asset_hrefs(assets_dict, item_url)
Call_fix_umbra_asset_hrefs ==
    /\ called = "fix_umbra_asset_hrefs"
    /\ returned = NotRun
    /\ returned' = fix_umbra_asset_hrefs(arguments[1], arguments[2].s)
    /\ UNCHANGED <<keys_vars, links_vars, main_vars, called, arguments>>

\* compact_assets_dict(assets_dict, item_url, provider)
Call_compact_assets_dict ==
    /\ called = "compact_assets_dict"
    /\ returned = NotRun
    /\ returned' = compact_assets_dict(arguments[1], arguments[2].s, arguments[3])
    /\ UNCHANGED <<keys_vars, links_vars, main_vars, called, arguments>>

\* extract_datetime_fields(properties)
Call_extract_datetime_fields ==
    /\ called = "extract_datetime_fields"
    /\ returned = NotRun
    /\ returned' = extract_datetime_fields(arguments[1])
    /\ UNCHANGED <<keys_vars, links_vars, main_vars, called, arguments>>

\* extract_bbox_struct(geometry, item_bbox)
Call_extract_bbox_struct ==
    /\ called = "extract_bbox_struct"
    /\ returned = NotRun
    /\ returned' = extract_bbox_struct(arguments[1], arguments[2])
    /\ UNCHANGED <<keys_vars, links_vars, main_vars, called, arguments>>

\* normalize_value_for_parquet(value)
Call_normalize_value_for_parquet ==
    /\ called = "normalize_value_for_parquet"
    /\ returned = NotRun
    /\ returned' = normalize_value_for_parquet(arguments[1])
    /\ UNCHANGED <<keys_vars, links_vars, main_vars, called, arguments>>

\* serialize_complex_columns(gdf)
Call_serialize_complex_columns ==
    /\ called = "serialize_complex_columns"
    /\ returned = NotRun
    /\ returned' = [t |-> "gdf", rows |-> serialize_complex_columns(arguments[1])]
    /\ UNCHANGED <<keys_vars, links_vars, main_vars, called, arguments>>

\* serialize_mixed_type_columns(gdf)
Call_serialize_mixed_type_columns ==
    /\ called = "serialize_mixed_type_columns"
    /\ returned = NotRun
    /\ returned' = [t |-> "gdf", rows |-> serialize_mixed_type_columns(arguments[1])]
    /\ UNCHANGED <<keys_vars, links_vars, main_vars, called, arguments>>

\* _save_gdf(gdf, provider, output_subdir): its to_parquet calls, those that
\* raised (each caught in its own try) and the files it leaves
Call__save_gdf ==
    /\ called = "_save_gdf"
    /\ returned = NotRun
    /\ \E writes \in {_save_gdf(arguments[1], arguments[2], arguments[3])} :
       \E failed \in SUBSET (1..Len(writes)) :
          returned' = [t |-> "saved", writes |-> writes, failed |-> failed,
                       disk |-> to_parquet(<<>>, writes, failed)]
    /\ UNCHANGED <<keys_vars, links_vars, main_vars, called, arguments>>

\* main(argv) of tools/get_kmz.py
Call_get_kmz_main ==
    /\ called = "get_kmz.main"
    /\ returned = NotRun
    /\ returned' = get_kmz_main(arguments[1])
    /\ UNCHANGED <<keys_vars, links_vars, main_vars, called, arguments>>

NextCalls ==
    \/ Call_fix_umbra_asset_hrefs
    \/ Call_compact_assets_dict
    \/ Call_extract_datetime_fields
    \/ Call_extract_bbox_struct
    \/ Call_normalize_value_for_parquet
    \/ Call_serialize_complex_columns
    \/ Call_serialize_mixed_type_columns
    \/ Call__save_gdf
    \/ Call_get_kmz_main

SpecCalls == InitCalls /\ [][NextCalls]_vars

(***************************************************************************)
(* Claims on the href repair of Umbra assets, checked under SpecCalls      *)
(***************************************************************************)
\* the directory of a URL, with its final "/"
UrlDirectory(url) == SubSeq(url, 1, rfind(url, "/"))

\* the file name of a URL without ".stac.v2.json"
UrlItemName(url) ==
    LET file == SubSeq(url, rfind(url, "/") + 1, Len(url))
    IN  IF endswith(file, S.stac_v2_json)
        THEN SubSeq(file, 1, Len(file) - Len(S.stac_v2_json))
        ELSE file

\* the suffix of the first pattern, in the order CSI-SIDD, CSI_SIDD, CSI_TIFF,
\* SICD_XML, SICD, SIDD, CPHD, TIFF, that is a substring of a title
FirstPatternSuffix(title) ==
    IF contains(title, S.t_CSI_hy_SIDD) THEN S.sfx_CSI_SIDD
    ELSE IF contains(title, S.t_CSI_SIDD) THEN S.sfx_CSI_SIDD
    ELSE IF contains(title, S.t_CSI_TIFF) THEN S.sfx_CSI
    ELSE IF contains(title, S.t_SICD_XML) THEN S.sfx_SICD
    ELSE IF contains(title, S.SICD) THEN S.sfx_SICD
    ELSE IF contains(title, S.SIDD) THEN S.sfx_SIDD
    ELSE IF contains(title, S.CPHD) THEN S.sfx_CPHD
    ELSE IF contains(title, S.TIFF) THEN S.sfx_GEC
    ELSE <<>>

\* the call of fix_umbra_asset_hrefs has returned a dict
FixReturned ==
    called = "fix_umbra_asset_hrefs" /\ returned # NotRun /\ ~IsRaise(returned)

\* C12: every asset kept by the href repair has the href "<directory of the item
\* URL><item file name without .stac.v2.json><suffix>", where the suffix is the one
\* of the first pattern of the table, in table order, that is a substring of the
\* title of the asset; a title with a combined and a single-word pattern gets the
\* suffix of the combined pattern, and every kept href lies in the directory of
\* the item
C12_HrefOfFirstPattern ==
    FixReturned =>
        \A i \in 1..Len(returned.d) :
            LET title == dict_get(dict_get(arguments[1].d, returned.d[i][1]).d, S.title)
                href == dict_get(returned.d[i][2].d, S.href)
            IN  /\ href = PyStr(UrlDirectory(arguments[2].s) \o UrlItemName(arguments[2].s)
                                \o FirstPatternSuffix(title.s))
                /\ startswith(href.s, UrlDirectory(arguments[2].s))
                /\ ~contains(SubSeq(href.s, Len(UrlDirectory(arguments[2].s)) + 1,
                                    Len(href.s)), <<"/">>)
                /\ (contains(title.s, S.t_CSI_hy_SIDD) /\ contains(title.s, S.SIDD)
                        => endswith(href.s, S.sfx_CSI_SIDD))

\* a kept asset whose title has the combined pattern CSI-SIDD and the single-word
\* pattern SIDD, next to a kept asset with two single-word patterns
C12_Witness ==
    /\ FixReturned
    /\ \E i \in 1..Len(returned.d) :
            LET title == dict_get(returned.d[i][2].d, S.title)
            IN  /\ contains(title.s, S.t_CSI_hy_SIDD) /\ contains(title.s, S.SIDD)
                /\ endswith(dict_get(returned.d[i][2].d, S.href).s, S.sfx_CSI_SIDD)
    /\ \E i \in 1..Len(returned.d) :
            LET title == dict_get(returned.d[i][2].d, S.title)
            IN  contains(title.s, S.CPHD) /\ contains(title.s, S.SIDD)

\* the keys, in order, of the entries of an assets dict that are mappings with a
\* title in which a pattern of the table occurs
KeysWithPattern(assets) ==
    LET resolvable(it) ==
            /\ it[2].t = "dict"
            /\ dict_has(it[2].d, S.title)
            /\ dict_get(it[2].d, S.title).t = "str"
            /\ FirstPatternSuffix(dict_get(it[2].d, S.title).s) # <<>>
        kept == SelectSeq(assets.d, resolvable)
    IN  [k \in 1..Len(kept) |-> kept[k][1]] \o <<>>

\* C13: an Umbra asset whose title has no pattern of the table, an absent title
\* or a null title is dropped without raising, and every other asset of the item
\* is still resolved
C13_UnresolvableAssetExcludesOnlyItself ==
    called = "fix_umbra_asset_hrefs" /\ returned # NotRun /\ arguments[1].t = "dict" =>
        /\ ~IsRaise(returned)
        /\ [k \in 1..Len(returned.d) |-> returned.d[k][1]] \o <<>>
                = KeysWithPattern(arguments[1])

(***************************************************************************)
(* Claims on the assets of the other providers, checked under SpecCalls    *)
(***************************************************************************)
\* the call of compact_assets_dict has returned
CompactReturned == called = "compact_assets_dict" /\ returned # NotRun

\* it has returned for a provider without special asset rules
DefaultCompactReturned == CompactReturned /\ arguments[3] # PyStr(S.umbra)

\* {href, type, roles} of an asset: href and type as they are (type None when
\* absent), roles normalized (None when absent)
CompactOf(asset_obj) ==
    PyDict(<<<<S.href, dict_get(asset_obj.d, S.href)>>,
             <<S.type, dict_get_default(asset_obj.d, S.type, PyNone)>>,
             <<S.roles, normalize_value_for_parquet(
                            dict_get_default(asset_obj.d, S.roles, PyNone))>>>>)

\* the compacted entries of the assets that are mappings whose href is not
\* among Dropped, in order
CompactedUnless(assets, Dropped) ==
    LET kept == SelectSeq(assets.d,
                    LAMBDA it : /\ it[2].t = "dict"
                                /\ dict_get_default(it[2].d, S.href, PyNone) \notin Dropped)
    IN  PyDict([k \in 1..Len(kept) |-> <<kept[k][1], CompactOf(kept[k][2])>>] \o <<>>)

\* C14 as stated: for a provider without special asset rules compact_assets_dict
\* keeps, under its key, every asset that is a mapping with a non-null href as
\* {href, type, roles}, drops the others, and gives {} for assets that are no mapping
C14_KeepsNonNullHref ==
    DefaultCompactReturned =>
        IF arguments[1].t # "dict" THEN returned = PyDict(<<>>)
        ELSE returned = CompactedUnless(arguments[1], {PyNone})

\* C14: for a provider without special asset rules compact_assets_dict keeps,
\* under its key, every asset that is a mapping with an href that is neither null
\* nor the empty string as {href, type, roles}, href and type unchanged and roles
\* normalized; it drops every other asset, and assets that are no mapping give {}
C14_KeepsNonEmptyHref ==
    DefaultCompactReturned =>
        IF arguments[1].t # "dict" THEN returned = PyDict(<<>>)
        ELSE returned = CompactedUnless(arguments[1], {PyNone, PyStr(<<>>)})

\* two assets, the first with an empty href and the second with an href and
\* roles to normalize: only the second is kept
C14_Witness ==
    /\ DefaultCompactReturned
    /\ arguments[1].t = "dict"
    /\ Len(arguments[1].d) = 2
    /\ arguments[1].d[1][2].t = "dict"
    /\ dict_get_default(arguments[1].d[1][2].d, S.href, PyNone) = PyStr(<<>>)
    /\ Len(returned.d) = 1
    /\ returned.d[1][1] = arguments[1].d[2][1]
    /\ dict_get(returned.d[1][2].d, S.roles) = PyList(<<PyStr(V.data), PyNum(1)>>)

(***************************************************************************)
(* Claims on the links of the other providers, checked under SpecLinks     *)
(***************************************************************************)
\* one link as the default rule resolves it: every field normalized, an href
\* with the scheme http, https or s3 unchanged, another href joined to the item URL
ResolvedLink(link, item_url) ==
    LET fields == normalize_value_for_parquet(link)
        href == dict_get_default(fields.d, S.href, PyNone)
    IN  IF ~dict_has(fields.d, S.href) THEN fields
        ELSE IF \E scheme \in {S.http_, S.https_, S.s3_} :
                    startswith(href.s, scheme)
        THEN fields
        ELSE PyDict(dict_set(fields.d, S.href, PyStr(urljoin(item_url, href.s))))

\* C15: for a provider without the link repair resolve_links gives one link for
\* every input link that is a mapping, in input order, with every field kept and
\* normalized, the href unchanged when it starts with http://, https:// or s3://
\* and joined to the item URL otherwise; entries that are no mapping are skipped
\* without error and links that are no list give the empty list
C15_DefaultResolvesEveryMappingLink ==
    links_out # NotRun /\ links_provider # PyStr(S.umbra) =>
        LET links_list == dict_get_default(links_item.d, S.links, PyList(<<>>))
            mappings == SelectSeq(links_list.l, isinstance_dict)
        IN  IF ~isinstance_list(links_list) THEN links_out = PyList(<<>>)
            ELSE /\ ~IsRaise(links_out)
                 /\ links_out = PyList([k \in 1..Len(mappings) |->
                                    ResolvedLink(mappings[k], S.item_url)] \o <<>>)

(***************************************************************************)
(* Claims on the datetime range, checked under SpecCalls                   *)
(***************************************************************************)
\* the value of a datetime property, None when the property is absent or null
DatetimeOf(properties, key) == dict_get_default(properties.d, key, PyNone)

\* the instant of a datetime property, None for None
InstantOf(v) == IF v = PyNone THEN PyNone ELSE to_datetime(v)

\* C16: extract_datetime_fields gives start = start_datetime when present and
\* datetime otherwise, end = end_datetime when present and the start otherwise,
\* as instants: (null, null) without error when none of the three is present,
\* twice the instant of datetime when only datetime is present, and (null, the
\* instant of end_datetime) when only end_datetime is present
C16_StartAndEndFallBack ==
    called = "extract_datetime_fields" /\ returned # NotRun =>
        LET start_datetime == DatetimeOf(arguments[1], S.start_datetime)
            datetime == DatetimeOf(arguments[1], S.datetime)
            end_datetime == DatetimeOf(arguments[1], S.end_datetime)
            start == IF start_datetime # PyNone THEN start_datetime ELSE datetime
            end == IF end_datetime # PyNone THEN end_datetime ELSE start
        IN  /\ PyStr(V.dt_bad) \notin {start, end} =>
                    returned = PyTuple(<<InstantOf(start), InstantOf(end)>>)
            /\ start_datetime = PyNone /\ datetime = PyNone /\ end_datetime = PyNone =>
                    returned = PyTuple(<<PyNone, PyNone>>)
            /\ start_datetime = PyNone /\ end_datetime = PyNone /\ datetime = PyStr(V.dt_z) =>
                    returned = PyTuple(<<to_datetime(datetime), to_datetime(datetime)>>)
            /\ start_datetime = PyNone /\ datetime = PyNone /\ end_datetime = PyStr(V.dt_later) =>
                    returned = PyTuple(<<PyNone, to_datetime(end_datetime)>>)

\* a start_datetime without end_datetime, next to a null datetime: the end is the
\* instant of the start
C16_Witness ==
    /\ called = "extract_datetime_fields"
    /\ returned # NotRun
    /\ dict_get_default(arguments[1].d, S.start_datetime, PyNone) = PyStr(V.dt_later)
    /\ dict_has(arguments[1].d, S.datetime)
    /\ dict_get(arguments[1].d, S.datetime) = PyNone
    /\ ~dict_has(arguments[1].d, S.end_datetime)
    /\ returned = PyTuple(<<to_datetime(PyStr(V.dt_later)), to_datetime(PyStr(V.dt_later))>>)

(***************************************************************************)
(* Claims on the bbox struct, checked under SpecCalls                      *)
(***************************************************************************)
BboxStruct(xmin, ymin, xmax, ymax) ==
    PyDict(<<<<S.xmin, xmin>>, <<S.ymin, ymin>>, <<S.xmax, xmax>>, <<S.ymax, ymax>>>>)

\* the least and the greatest of a set of numbers
Least(Q) == CHOOSE a \in Q : \A b \in Q : a <= b

Greatest(Q) == CHOOSE a \in Q : \A b \in Q : a >= b

\* C17: extract_bbox_struct gives {xmin: b[0], ymin: b[1], xmax: b[2], ymax: b[3]}
\* as they are for an item bbox b of at least 4 components, also one of 6
\* components, and the bounds (minx, miny, maxx, maxy) of the geometry for a bbox
\* that is absent, empty or shorter than 4
C17_BboxVerbatimElseBounds ==
    called = "extract_bbox_struct" /\ returned # NotRun =>
        LET geometry == arguments[1]
            b == arguments[2]
            xs == {geometry.coords[k][1] : k \in 1..Len(geometry.coords)}
            ys == {geometry.coords[k][2] : k \in 1..Len(geometry.coords)}
        IN  IF b # PyNone /\ Len(b.l) >= 4
            THEN returned = BboxStruct(b.l[1], b.l[2], b.l[3], b.l[4])
            ELSE returned = BboxStruct(PyFloat(Least(xs)), PyFloat(Least(ys)),
                                       PyFloat(Greatest(xs)), PyFloat(Greatest(ys)))

\* a bbox of 6 components gave its first four, for a geometry with other bounds
C17_Witness ==
    /\ called = "extract_bbox_struct"
    /\ returned # NotRun
    /\ arguments[2] # PyNone
    /\ Len(arguments[2].l) = 6
    /\ returned = BboxStruct(PyNum(1), PyNum(2), PyNum(0), PyNum(3))
    /\ arguments[1].type = S.LineString

(***************************************************************************)
(* Claims on the value normalizer, checked under SpecCalls                 *)
(***************************************************************************)
RECURSIVE HasTupleOrWrapper(_)
\* whether a value holds, at any depth, a tuple or a numpy number
HasTupleOrWrapper(v) ==
    IF v.t \in {"tuple", "npnum"} THEN TRUE
    ELSE IF v.t = "list" THEN \E k \in 1..Len(v.l) : HasTupleOrWrapper(v.l[k])
    ELSE IF v.t = "dict" THEN \E k \in 1..Len(v.d) : HasTupleOrWrapper(v.d[k][2])
    ELSE FALSE

RECURSIVE SameKeysAndOrder(_, _)
\* whether w has the members of v place by place: the keys of a mapping in the
\* same order, as many members of a sequence, and so at every depth
SameKeysAndOrder(v, w) ==
    IF v.t = "dict"
    THEN /\ w.t = "dict"
         /\ Len(w.d) = Len(v.d)
         /\ \A k \in 1..Len(v.d) :
                w.d[k][1] = v.d[k][1] /\ SameKeysAndOrder(v.d[k][2], w.d[k][2])
    ELSE IF v.t \in {"list", "tuple"}
    THEN /\ w.t = "list"
         /\ Len(w.l) = Len(v.l)
         /\ \A k \in 1..Len(v.l) : SameKeysAndOrder(v.l[k], w.l[k])
    ELSE IF v.t = "npnum" THEN w = PyNum(v.n)
    ELSE w = v

\* C18: the normalizer is idempotent on values built from null, strings,
\* booleans, numbers, lists, tuples and mappings: normalizing the result again
\* gives the result, a value without tuple and without numpy number is given
\* back as it is, and the keys of mappings, their order and the order of
\* sequences are kept
C18_NormalizerIdempotent ==
    called = "normalize_value_for_parquet" /\ returned # NotRun =>
        /\ normalize_value_for_parquet(returned) = returned
        /\ ~HasTupleOrWrapper(arguments[1]) => returned = arguments[1]
        /\ SameKeysAndOrder(arguments[1], returned)

\* a mapping with a tuple that holds a numpy number was normalized to another value
C18_Witness ==
    /\ called = "normalize_value_for_parquet"
    /\ returned # NotRun
    /\ arguments[1].t = "dict"
    /\ Len(arguments[1].d) = 2
    /\ arguments[1].d[1][2].t = "tuple"
    /\ arguments[1].d[1][2].l = <<PyStr(V.text), NpNum(2)>>
    /\ returned.d[1][2] = PyList(<<PyStr(V.text), PyNum(2)>>)

(***************************************************************************)
(* Claims on the raw items of a run, checked under Spec                    *)
(***************************************************************************)
\* C19: the raw item document is not changed by the processing: the properties,
\* the assets and the links of every item a task holds are those that were fetched
C19_RawItemUnchanged ==
    \A p \in 1..Len(tasks) :
        \A k \in 1..Len(tasks[p].item_jsons) :
            LET fetched == fetch_json_tolerant(responses[p][k])
                item_json == tasks[p].item_jsons[k]
            IN  fetched.t = "dict" =>
                    /\ item_json.t = "dict"
                    /\ \A key \in {S.properties, S.assets, S.links} :
                            /\ dict_has(item_json.d, key) <=> dict_has(fetched.d, key)
                            /\ dict_has(fetched.d, key) =>
                                    dict_get(item_json.d, key) = dict_get(fetched.d, key)

(***************************************************************************)
(* Claims on the order of the items of a batch, checked under Spec         *)
(***************************************************************************)
\* the orders of n things
Orders(n) == {f \in [1..n -> 1..n] : \A i, j \in 1..n : f[i] = f[j] => i = j}

\* the viz record of the k-th fetched item of a task, None for an item the loop
\* passes over
FetchedRecord(p, k) ==
    LET item_json == fetch_json_tolerant(responses[p][k])
    IN  IF ~truthy(item_json) \/ item_json.t # "dict" THEN PyNone
        ELSE IF ~truthy(dict_get_default(item_json.d, SM.geometry, PyNone)) THEN PyNone
        ELSE viz_record(item_json, ItemUrl(k), providers_to_process[p])

\* the table that lines 151-163 hand to serialize_complex_columns
CleanedTable(records, provider) ==
    IF provider \in {PyStr(SM.capella), PyStr(SM.iceye), PyStr(SM.umbra)}
    THEN clean_capella_gdf(DataFrame(records))
    ELSE [t |-> "gdf", rows |-> DataFrame(records)]

\* the columns of a table in which a cell of the table after differs
ChangedColumns(before, after) ==
    {before[1][j][1] : j \in {j \in 1..Len(before[1]) :
        \E i \in 1..Len(before) :
            dict_get(after[i], before[1][j][1]) # dict_get(before[i], before[1][j][1])}}

\* the columns that serialize_complex_columns serializes in the table of records
SerializedColumns(records, provider) ==
    LET changed(cleaned) == ChangedColumns(cleaned, serialize_complex_columns(cleaned))
    IN  changed(CleanedTable(records, provider).rows)

\* C20: the viz batch does not depend on the order of the items: the records of
\* a finished viz loop are, as a set, the records of the fetched items, each made
\* from its own item, item URL and provider, and for every order of the records
\* serialize_complex_columns serializes the same set of columns as it did in the run
C20_BatchIndependentOfOrder ==
    \A p \in 1..Len(tasks) :
        tasks[p].gdf_viz # NotRun =>
            LET records == tasks[p].records_viz
                provider == providers_to_process[p]
                fetched == {FetchedRecord(p, k) : k \in 1..Len(responses[p])}
                in_the_run == ChangedColumns(CleanedTable(records, provider).rows,
                                             tasks[p].gdf_viz.rows)
            IN  /\ {records[j] : j \in 1..Len(records)} = {r \in fetched : r.t = "dict"}
                /\ \A order \in Orders(Len(records)) :
                        LET permuted == [j \in 1..Len(records) |-> records[order[j]]] \o <<>>
                        IN  /\ ~IsRaise(CleanedTable(permuted, provider))
                            /\ SerializedColumns(permuted, provider) = in_the_run

\* a batch of two different records of which only the first has a list in a
\* column that was serialized
C20_Witness ==
    \E p \in 1..Len(tasks) :
        /\ tasks[p].gdf_viz # NotRun
        /\ Len(tasks[p].records_viz) = 2
        /\ tasks[p].records_viz[1] # tasks[p].records_viz[2]
        /\ \E col \in ChangedColumns(
                        CleanedTable(tasks[p].records_viz, providers_to_process[p]).rows,
                        tasks[p].gdf_viz.rows) :
                /\ dict_get_default(tasks[p].records_viz[1].d, col, PyNone).t \in {"list", "dict"}
                /\ dict_get_default(tasks[p].records_viz[2].d, col, PyNone).t
                        \notin {"list", "dict"}

(***************************************************************************)
(* Claims on the schema unification, checked under SpecCalls               *)
(***************************************************************************)
\* the columns that the first pass never serializes
NeverSerialized ==
    {S.geometry, S.bbox, S.links, S.assets, S.geometry_geojson, S.start_datetime,
     S.end_datetime}

\* the second column of the table given to the unification, and its cells
GivenColumn == arguments[1][1][2][1]

GivenCells == [i \in 1..Len(arguments[1]) |-> arguments[1][i][2][2]] \o <<>>

ReturnedCells == [i \in 1..Len(returned.rows) |-> returned.rows[i][2][2]] \o <<>>

IsComposite(v) == v.t \in {"list", "dict"}

\* C21: serialize_complex_columns replaces, in a column that is not on the
\* never-serialize list and holds a list or a mapping, every list and mapping by
\* its JSON string and leaves every scalar and every null as it is, so that no
\* list and no mapping is left; a column without such a value is left unchanged
C21_CompositesBecomeJson ==
    called = "serialize_complex_columns" /\ returned # NotRun /\ GivenColumn \notin NeverSerialized
        => /\ Len(ReturnedCells) = Len(GivenCells)
           /\ returned.rows[1][2][1] = GivenColumn
           /\ \A i \in 1..Len(GivenCells) :
                IF IsComposite(GivenCells[i])
                THEN ReturnedCells[i] = PyStr(dumps(GivenCells[i], FALSE))
                ELSE ReturnedCells[i] = GivenCells[i]
           /\ \A i \in 1..Len(ReturnedCells) : ~IsComposite(ReturnedCells[i])

\* the column with the cells [1, 2], "text" and None became "[1, 2]", "text", None
C21_Witness ==
    /\ called = "serialize_complex_columns"
    /\ returned # NotRun
    /\ GivenColumn = V.tags
    /\ GivenCells = <<PyList(<<PyNum(1), PyNum(2)>>), PyStr(V.text), PyNone>>
    /\ ReturnedCells = <<PyStr(<<"[", "1", ",", " ", "2", "]">>), PyStr(V.text), PyNone>>

\* a column holds a list next to a non-null value that is no list
MixesListAndNonList(cells) ==
    /\ \E i \in 1..Len(cells) : cells[i].t = "list"
    /\ \E i \in 1..Len(cells) : cells[i].t \notin {"list", "None", "nan"}

\* C22: serialize_mixed_type_columns serializes every column that holds a list
\* next to a non-null value that is no list to JSON strings, also when the column
\* is geometry, bbox, links, assets, start_datetime or end_datetime, and leaves
\* the null values null
C22_MixedColumnsSerializedEverywhere ==
    /\ called = "serialize_mixed_type_columns"
    /\ returned # NotRun
    /\ MixesListAndNonList(GivenCells)
    => \A i \in 1..Len(GivenCells) :
            IF GivenCells[i] = PyNone THEN ReturnedCells[i] = PyNone
            ELSE IF GivenCells[i] = NaN THEN ReturnedCells[i].t \in {"None", "nan"}
            ELSE ReturnedCells[i] = PyStr(dumps(GivenCells[i], FALSE))

(***************************************************************************)
(* Claims on the self link of Umbra items, checked under SpecLinks         *)
(***************************************************************************)
\* the links of a list that are mappings with the rel self
SelfLinks(links) ==
    SelectSeq(links, LAMBDA link : /\ link.t = "dict"
                                   /\ dict_get_default(link.d, S.rel, PyNone) = PyStr(S.self))

\* C23: for umbra every self link of the resolved list has the item URL as href,
\* the media type of the source self link when that gave one, and
\* application/geo+json when the source self link had no type or a null type or
\* when the input had no self link
C23_UmbraSelfLinkHrefAndType ==
    /\ links_out # NotRun
    /\ links_provider = PyStr(S.umbra)
    /\ isinstance_list(dict_get_default(links_item.d, S.links, PyList(<<>>)))
    => LET source == SelfLinks(dict_get_default(links_item.d, S.links, PyList(<<>>)).l)
           resolved == SelfLinks(links_out.l)
           media_type(link) ==
                IF dict_get_default(link.d, S.type, PyNone) = PyNone
                THEN PyStr(S.application_geo_json)
                ELSE dict_get(link.d, S.type)
       IN  /\ \A k \in 1..Len(resolved) :
                dict_get_default(resolved[k].d, S.href, PyNone) = PyStr(S.item_url)
           /\ IF source = <<>>
              THEN /\ Len(resolved) = 1
                   /\ dict_get_default(resolved[1].d, S.type, PyNone)
                        = PyStr(S.application_geo_json)
              ELSE /\ Len(resolved) = Len(source)
                   /\ \A k \in 1..Len(source) :
                        dict_get_default(resolved[k].d, S.type, PyNone) = media_type(source[k])

(***************************************************************************)
(* Claims on the order of the two asset rules of Umbra, under SpecCalls    *)
(***************************************************************************)
\* C24: for umbra compact_assets_dict repairs the hrefs first and renames the
\* keys second: the assets are matched by title and filtered under their own keys,
\* only the keys of the assets that the repair kept are renamed, and the values
\* {href, type, roles, title} are those of the repair; for another provider no
\* key is renamed and no href repaired
C24_RepairThenRename ==
    CompactReturned /\ arguments[1].t = "dict" =>
        IF arguments[3] = PyStr(S.umbra)
        THEN LET kept == KeysWithPattern(arguments[1])
                 repaired == fix_umbra_asset_hrefs(arguments[1], arguments[2].s)
                 name(k) == _extract_umbra_asset_name(kept[k])
                 last(k) == \A j \in 1..Len(kept) : name(j) = name(k) => j <= k
             IN  /\ dict_keys(returned.d) = {name(k) : k \in 1..Len(kept)}
                 /\ \A k \in 1..Len(kept) :
                        last(k) => dict_get(returned.d, name(k)) = dict_get(repaired.d, kept[k])
                 /\ \A i \in 1..Len(returned.d) :
                        /\ dict_keys(returned.d[i][2].d) = {S.href, S.type, S.roles, S.title}
                        /\ dict_get(returned.d[i][2].d, S.href)
                            = PyStr(UrlDirectory(arguments[2].s) \o UrlItemName(arguments[2].s)
                                    \o FirstPatternSuffix(dict_get(returned.d[i][2].d,
                                                                   S.title).s))
        ELSE \A i \in 1..Len(returned.d) :
                /\ dict_has(arguments[1].d, returned.d[i][1])
                /\ dict_get(returned.d[i][2].d, S.href)
                    = dict_get(dict_get(arguments[1].d, returned.d[i][1]).d, S.href)

\* two Umbra assets whose keys are renamed to the same name, the first with a
\* title of the table and the second with another title: the first is returned
\* under the new name
C24_Witness ==
    /\ CompactReturned
    /\ arguments[3] = PyStr(S.umbra)
    /\ Len(arguments[1].d) = 2
    /\ arguments[1].d[1][2].t = "dict"
    /\ arguments[1].d[2][2].t = "dict"
    /\ _extract_umbra_asset_name(arguments[1].d[1][1])
            = _extract_umbra_asset_name(arguments[1].d[2][1])
    /\ dict_get_default(arguments[1].d[1][2].d, S.title, PyNone) = PyStr(S.SIDD)
    /\ dict_get_default(arguments[1].d[2][2].d, S.title, PyNone) = PyStr(V.README)
    /\ Len(returned.d) = 1
    /\ returned.d[1][1] = _extract_umbra_asset_name(arguments[1].d[1][1])
    /\ dict_get(returned.d[1][2].d, S.title) = PyStr(S.SIDD)

(***************************************************************************)
(* Claims on the saved viz tables, checked under Spec                      *)
(***************************************************************************)
\* the tables of a task that were written under viz/
SavedViz(p) ==
    SelectSeq(tasks[p].saved, LAMBDA file : startswith(file[1], SM.viz \o <<"/">>))

\* "[x.0, y.0]": a position of two coordinates as json.dumps writes it
PositionText(c) ==
    <<"[">> \o str_int(c[1]) \o S.dot_zero \o S.comma_space \o str_int(c[2]) \o S.dot_zero
    \o <<"]">>

\* the numbers of a geometry_geojson text are those of positions of two
\* coordinates: every ", " between two numbers is followed by the second and "]"
TwoCoordinatesOnly(text, coords) ==
    /\ \A k \in 1..Len(coords) : contains(text, PositionText(coords[k]))
    /\ \A i \in 1..(Len(text) - 3) :
            text[i] = "0" /\ text[i + 1] = "," /\ text[i + 2] = " " /\ text[i + 3] # "["
            => \E j \in (i + 4)..Len(text) :
                    /\ text[j] = "]"
                    /\ \A m \in (i + 3)..(j - 1) : text[m] \notin {",", "]"}

\* C25: in every viz table that was saved the geometry has two dimensions and
\* geometry_geojson was derived from the geometry of two dimensions: neither
\* holds an elevation
C25_SavedVizIsTwoDimensional ==
    \A p \in 1..Len(tasks) :
        \A f \in 1..Len(SavedViz(p)) :
            \A i \in 1..Len(SavedViz(p)[f][2]) :
                LET row == SavedViz(p)[f][2][i]
                    geometry == dict_get(row, S.geometry)
                IN  /\ geometry.t = "geom"
                    /\ \A k \in 1..Len(geometry.coords) : Len(geometry.coords[k]) = 2
                    /\ dict_has(row, S.geometry_geojson)
                    /\ TwoCoordinatesOnly(dict_get(row, S.geometry_geojson).s, geometry.coords)

\* the point that was fetched with an elevation is in a saved viz table
C25_Witness ==
    \E p \in 1..Len(tasks) :
        /\ \E k \in 1..Len(responses[p]) : responses[p][k] = [kind |-> "json", body |-> Doc.point]
        /\ \E f \in 1..Len(SavedViz(p)) :
            \E i \in 1..Len(SavedViz(p)[f][2]) :
                /\ dict_get(SavedViz(p)[f][2][i], S.geometry).type = S.Point
                /\ dict_get(SavedViz(p)[f][2][i], S.geometry).coords = <<<<3, 4>>>>

\* C26: a task of process_provider whose provider is not capella, iceye or umbra
\* (none included) takes the default path: it does not raise and no provider
\* cleaning function gives it a table
C26_OtherProviderTakesDefaultPath ==
    \A p \in 1..Len(tasks) :
        providers_to_process[p] \notin {PyStr(S.capella), PyStr(S.iceye), PyStr(S.umbra)}
        => /\ tasks[p].pc # "raised"
           /\ tasks[p].gdf_viz = NotRun
           /\ tasks[p].gdf_ard = NotRun

(***************************************************************************)
(* Claims on the two formats of one run, checked under Spec                *)
(***************************************************************************)
\* the viz records of the fetched items of a task, in the order of the items:
\* what the viz loop of a run with output format "viz" collects
RecordsOfFetched(p) ==
    LET made == [k \in 1..Len(responses[p]) |-> FetchedRecord(p, k)] \o <<>>
    IN  SelectSeq(made, LAMBDA record : record.t = "dict")

\* the viz loop of the task is over
VizLoopOver(p) ==
    /\ output_format \in {SM.viz, SM.both}
    /\ \/ tasks[p].pc = "viz" /\ tasks[p].i > Len(tasks[p].item_jsons)
       \/ tasks[p].pc = "ard"
       \/ tasks[p].pc = "done" /\ tasks[p].item_urls # <<>>
       \/ tasks[p].gdf_viz # NotRun

\* C27: the viz batch is made from the items as they were fetched, with output
\* format "both" as with "viz": once the viz loop is over, and through every step
\* of the ARD part, the viz records are the records of the fetched items and the
\* viz table is the one made from them
C27_VizBatchOfBothIsThatOfViz ==
    \A p \in 1..Len(tasks) :
        VizLoopOver(p) =>
            /\ tasks[p].records_viz = RecordsOfFetched(p)
            /\ tasks[p].gdf_viz # NotRun =>
                    tasks[p].gdf_viz.rows =
                        serialize_complex_columns(
                            CleanedTable(RecordsOfFetched(p), providers_to_process[p]).rows)

\* a run with output format "both" has saved both tables and the ARD step has
\* changed an item that the viz table was made from
C27_Witness ==
    \E p \in 1..Len(tasks) :
        /\ output_format = SM.both
        /\ tasks[p].pc = "done"
        /\ tasks[p].gdf_viz # NotRun
        /\ tasks[p].gdf_ard # NotRun
        /\ \E k \in 1..Len(tasks[p].item_jsons) :
                /\ tasks[p].item_jsons[k] # fetch_json_tolerant(responses[p][k])
                /\ FetchedRecord(p, k).t = "dict"

(***************************************************************************)
(* Claims on the partition of the Capella table, checked under SpecCalls   *)
(***************************************************************************)
\* _save_gdf has returned for capella and a table with the product type column
PartitionSaved ==
    /\ called = "_save_gdf"
    /\ returned # NotRun
    /\ arguments[2] = PyStr(S.capella)
    /\ dict_has(arguments[1][1], SM.sar_product_type)

\* the product type of row i of the table given, and whether it is null
ProductTypeOf(i) == dict_get(arguments[1][i], SM.sar_product_type)

NullProductType(i) == ProductTypeOf(i).t \in {"None", "nan"}

\* the file of row i: <output_subdir>/capella/capella_<its product type>.parquet
FileOf(i) ==
    arguments[3] \o <<"/">> \o S.capella \o <<"/">> \o SM.capella_
    \o (IF ProductTypeOf(i).t = "str" THEN ProductTypeOf(i).s ELSE str_int(ProductTypeOf(i).n))
    \o SM.dot_parquet

\* row i of the table given without its product type
RowWithout(i) == SelectSeq(arguments[1][i], LAMBDA cell : cell[1] # SM.sar_product_type)

\* the to_parquet calls whose table holds row i
WritesOf(i) ==
    {k \in 1..Len(returned.writes) :
        \E r \in 1..Len(returned.writes[k].gdf) : returned.writes[k].gdf[r] = RowWithout(i)}

\* C29: for capella and a table with a sar:product_type column, every row with
\* a product type is in the table of exactly one to_parquet call, that of the
\* file capella_<its product type>.parquet; a row without product type is in
\* none; no table written has the column; and every call that did not fail has
\* left its file, whichever other calls failed
C29_CapellaPartition ==
    PartitionSaved =>
        /\ \A i \in 1..Len(arguments[1]) :
                IF NullProductType(i) THEN WritesOf(i) = {}
                ELSE \E k \in 1..Len(returned.writes) :
                        /\ WritesOf(i) = {k}
                        /\ returned.writes[k].path = FileOf(i)
        /\ \A k \in 1..Len(returned.writes) :
                /\ \A r \in 1..Len(returned.writes[k].gdf) :
                        ~dict_has(returned.writes[k].gdf[r], SM.sar_product_type)
                /\ \A r \in 1..Len(returned.writes[k].gdf) :
                        \E i \in 1..Len(arguments[1]) : returned.writes[k].gdf[r] = RowWithout(i)
                /\ k \notin returned.failed =>
                        /\ dict_has(returned.disk, returned.writes[k].path)
                        /\ (\A m \in (k + 1)..Len(returned.writes) :
                                returned.writes[m].path # returned.writes[k].path)
                            => dict_get(returned.disk, returned.writes[k].path)
                                    = returned.writes[k].gdf

\* a table with rows of two product types and a row without one was saved; the
\* write of the first product type failed and the file of the second is there
C29_Witness ==
    /\ PartitionSaved
    /\ Len(returned.writes) = 2
    /\ returned.failed = {1}
    /\ \E i \in 1..Len(arguments[1]) : NullProductType(i)
    /\ dict_has(returned.disk, returned.writes[2].path)
    /\ ~dict_has(returned.disk, returned.writes[1].path)

(***************************************************************************)
(* Claims on the get_kmz CLI, checked under SpecCalls                      *)
(***************************************************************************)
\* the exit code that the order of the checks gives an environment
ExitCodeInOrder(env) ==
    IF env.provider # S.capella THEN 1
    ELSE IF ~env.file_exists THEN 2
    ELSE IF ~env.id_in_table THEN 3
    ELSE IF ~env.deps_installed THEN 4
    ELSE IF env.asset_metadata \in {PyNone, PyStr(<<>>)} THEN 5
    ELSE IF ~env.fetch_ok THEN 6
    ELSE IF ~env.build_ok THEN 7
    ELSE 0

\* C30: main of get_kmz never raises and returns the exit code of the first
\* check that fails, in the order provider (1, before a file is read), parquet
\* (2), id (3), dependencies (4), asset_metadata (5), fetch (6), build (7), and
\* 0 only with the KMZ written
C30_ExitCodesInCheckOrder ==
    called = "get_kmz.main" /\ returned # NotRun =>
        /\ ~IsRaise(returned)
        /\ returned.code = ExitCodeInOrder(arguments[1])
        /\ returned.code = 1 => ~returned.read
        /\ returned.code = 0 <=> returned.kmz

====
